---- MODULE Spec2Model ----
(***************************************************************************)
(* A model of the LOCI generic object layer (of_object.c): objects are     *)
(* typed views (offset, length) into wire buffers, linked to a parent;     *)
(* lists are appended to and iterated through child attachment and length  *)
(* propagation.  LOCI_ASSERT is compiled in or out by the build (NDEBUG,   *)
(* as the #ifndef NDEBUG of of_object_parent_length_update shows); ndebug  *)
(* is the build.  A failed assertion ends the program: ok becomes FALSE.   *)
(***************************************************************************)
EXTENDS Integers, Sequences, FiniteSets, TLC

VARIABLES obj, wbuf, ok, ret, op, hist, ndebug

vars == <<obj, wbuf, ok, ret, op, hist, ndebug>>

----------------------------------------------------------------------------
(* Bounds of the model *)

\* successful appends to one list
MaxAppends == 3

(* Object slots (of_object_t storage the caller holds) and buffer slots *)
MSG  == 1
LIST == 2
ELEM == 3
ITEM == 4
DUPO == 5
Objs == {MSG, LIST, ELEM, ITEM, DUPO}
Bufs == {1, 2, 3}
NULL == 0

\* capacities a caller allocates a message with
Caps == {16, 64}

----------------------------------------------------------------------------
(* Status codes and constants of the library headers *)

OF_ERROR_NONE     == "OF_ERROR_NONE"
OF_ERROR_RESOURCE == "OF_ERROR_RESOURCE"
OF_ERROR_PARAM    == "OF_ERROR_PARAM"
OF_ERROR_RANGE    == "OF_ERROR_RANGE"
OF_ERROR_PARSE    == "OF_ERROR_PARSE"
\* the program ended in a failed LOCI_ASSERT, or in the dereference of a NULL
\* pointer: no status was returned
ASSERT_FAILED     == "ASSERT_FAILED"
CRASHED           == "CRASHED"
\* an operation that returns a pointer returned NULL / an object
RET_NULL          == "RET_NULL"
RET_OBJ           == "RET_OBJ"

_MAX_PARENT_ITERATIONS == 4
OF_MESSAGE_MIN_LENGTH == 8
OF_MESSAGE_XID_OFFSET == 4
OF_VERSION_1_0 == 1

----------------------------------------------------------------------------
(* Bytes *)

Zeros(n) == [i \in 1..n |-> 0]

\* big-endian 16-bit store / load at byte offset `off` (0-based) of a byte sequence
SetU8(b, off, v) == IF off + 1 \in DOMAIN b THEN [b EXCEPT ![off + 1] = v % 256] ELSE b
SetU16(b, off, v) == SetU8(SetU8(b, off, (v \div 256) % 256), off + 1, v % 256)
GetU8(b, off) == IF off + 1 \in DOMAIN b THEN b[off + 1] ELSE 0
GetU16(b, off) == GetU8(b, off) * 256 + GetU8(b, off + 1)
SetU32(b, off, v) == SetU16(SetU16(b, off, (v \div 65536) % 65536), off + 2, v % 65536)
GetU32(b, off) == GetU16(b, off) * 65536 + GetU16(b, off + 2)

\* MEMCPY(dst + doff, src + soff, n)
RECURSIVE CopyBytes(_, _, _, _, _)
CopyBytes(dst, doff, src, soff, n) ==
    IF n <= 0 THEN dst
    ELSE CopyBytes(SetU8(dst, doff, GetU8(src, soff)), doff + 1, src, soff + 1, n - 1)

RECURSIVE Sum(_)
Sum(s) == IF s = <<>> THEN 0 ELSE Head(s) + Sum(Tail(s))

----------------------------------------------------------------------------
(* Records.  A program state S is [obj, wbuf, ok, ret, ndebug]; ok = FALSE  *)
(* once the program has ended in a failed assertion or a crash, after which *)
(* no operation has any effect; ret is what the operation returned.        *)

ZeroWire == [wbuf |-> NULL, obj_offset |-> 0, owned |-> FALSE]

ZeroObj ==
    [alive |-> FALSE, parent |-> NULL, wbuf |-> NULL, obj_offset |-> 0,
     owned |-> FALSE, length |-> 0, version |-> 0, object_id |-> "OF_OBJECT_INVALID",
     wire_length_get |-> "NULL", wire_length_set |-> "NULL",
     wire_type_get |-> "NULL", wire_type_set |-> "NULL", delete_cb |-> FALSE]

\* state: the of_wire_buffer_t is unused, live or freed; bytes: the region buf
\* points at is the library's own ("owned"), the caller's ("bound"), given
\* back with FREE ("freed") or through the free function ("released"), or
\* handed to the caller by a steal ("stolen")
ZeroBuf ==
    [state |-> "unused", buf |-> <<>>, alloc_bytes |-> 0, current_bytes |-> 0,
     free |-> "NULL", bytes |-> "none"]

St(o, w, nd) == [obj |-> o, wbuf |-> w, ok |-> TRUE, ret |-> OF_ERROR_NONE,
                 ndebug |-> nd, log |-> <<>>]
\* log: what a call did outside the objects and buffers, in order: the
\* callbacks it invoked, the memory it gave back, the validator it ran
Event(S, name, arg) == IF S.ok THEN [S EXCEPT !.log = Append(@, <<name, arg>>)] ELSE S
\* the dereference of a NULL pointer: the program ends
Crash(S) == [S EXCEPT !.ok = FALSE, !.ret = CRASHED]
\* LOCI_ASSERT(cond): nothing in an NDEBUG build, the end of the program when
\* cond is false otherwise
LOCI_ASSERT(S, cond) ==
    IF ~S.ok \/ S.ndebug \/ cond THEN S
    ELSE [S EXCEPT !.ok = FALSE, !.ret = ASSERT_FAILED]
Return(S, r) == IF S.ok THEN [S EXCEPT !.ret = r] ELSE S

\* MALLOC of a wire buffer: the lowest unused slot, NULL when there is none
FreeBufs(S) == {b \in Bufs : S.wbuf[b].state = "unused"}
FreshBuf(S) == IF FreeBufs(S) = {} THEN NULL
               ELSE CHOOSE b \in FreeBufs(S) : \A c \in FreeBufs(S) : b <= c

----------------------------------------------------------------------------
(* Wire buffer (of_wire_buf.h) *)

\* of_wire_buffer_new: an owned, zeroed region; initially empty
of_wire_buffer_new(S, b, bytes) ==
    [S EXCEPT !.wbuf[b] = [state |-> "live", buf |-> Zeros(bytes),
                           alloc_bytes |-> bytes, current_bytes |-> 0,
                           free |-> "default", bytes |-> "owned"]]

\* of_wire_buffer_new_bind: wraps the caller's bytes, all of them current
of_wire_buffer_new_bind(S, b, bytes_seq, bytes, buf_free) ==
    [S EXCEPT !.wbuf[b] = [state |-> "live", buf |-> bytes_seq,
                           alloc_bytes |-> bytes, current_bytes |-> bytes,
                           free |-> buf_free, bytes |-> "bound"]]

\* of_wire_buffer_grow: the buffer never reallocates; asserts the room
of_wire_buffer_grow(S, b, bytes) ==
    IF ~S.ok THEN S
    ELSE IF b = NULL THEN IF S.ndebug THEN Crash(S) ELSE LOCI_ASSERT(S, FALSE)
    ELSE LET S1 == LOCI_ASSERT(S, S.wbuf[b].alloc_bytes >= bytes)
         IN IF S1.ok /\ bytes > S1.wbuf[b].current_bytes
            THEN [S1 EXCEPT !.wbuf[b].current_bytes = bytes]
            ELSE S1

\* of_wire_buffer_free: nothing for NULL; the bytes go back through the free
\* function the buffer holds, or with FREE when it holds none; then the
\* of_wire_buffer_t itself is freed.  A buffer already freed: the program ends.
of_wire_buffer_free(S, b) ==
    IF ~S.ok \/ b = NULL THEN S
    ELSE IF S.wbuf[b].state # "live" THEN Crash(S)
    ELSE LET held == S.wbuf[b].bytes \in {"owned", "bound"}
             cb   == S.wbuf[b].free \notin {"NULL", "default"}
             S1   == IF ~held THEN S
                     ELSE IF cb
                     THEN Event([S EXCEPT !.wbuf[b].bytes = "released"], "release_cb", b)
                     ELSE Event([S EXCEPT !.wbuf[b].bytes = "freed"], "free_bytes", b)
         IN Event([S1 EXCEPT !.wbuf[b] = [ZeroBuf EXCEPT !.state = "freed",
                                                      !.bytes = S1.wbuf[b].bytes]],
                  "free_wbuf", b)

\* of_wire_buffer_steal: the bytes are the caller's from now on; the
\* of_wire_buffer_t is freed without them
of_wire_buffer_steal(S, b) ==
    IF ~S.ok THEN S
    ELSE IF b = NULL \/ S.wbuf[b].state # "live" THEN Crash(S)
    ELSE Event([S EXCEPT !.wbuf[b] = [ZeroBuf EXCEPT !.state = "freed",
                                                   !.bytes = "stolen"]],
               "free_wbuf", b)

WBUF_ALLOC_BYTES(S, b) == S.wbuf[b].alloc_bytes
WBUF_CURRENT_BYTES(S, b) == S.wbuf[b].current_bytes

OF_OBJECT_ABSOLUTE_OFFSET(S, o, offset) == S.obj[o].obj_offset + offset

\* of_wire_buffer_u16_set / _get and the byte stores, through an object's buffer
WireSetU16(S, o, offset, v) ==
    IF ~S.ok THEN S
    ELSE IF S.obj[o].wbuf = NULL THEN Crash(S)
    ELSE [S EXCEPT !.wbuf[S.obj[o].wbuf].buf =
              SetU16(@, OF_OBJECT_ABSOLUTE_OFFSET(S, o, offset), v)]
WireSetU8(S, o, offset, v) ==
    IF ~S.ok THEN S
    ELSE IF S.obj[o].wbuf = NULL THEN Crash(S)
    ELSE [S EXCEPT !.wbuf[S.obj[o].wbuf].buf =
              SetU8(@, OF_OBJECT_ABSOLUTE_OFFSET(S, o, offset), v)]
WireGetU16(S, o, offset) ==
    GetU16(S.wbuf[S.obj[o].wbuf].buf, OF_OBJECT_ABSOLUTE_OFFSET(S, o, offset))
WireGetU8(S, o, offset) ==
    GetU8(S.wbuf[S.obj[o].wbuf].buf, OF_OBJECT_ABSOLUTE_OFFSET(S, o, offset))

----------------------------------------------------------------------------
(* The type registry (generated code): object ids, their fixed lengths,    *)
(* their accessors and initializers.  Two messages (one ending in its list,  *)
(* one with a 4-byte trailer after its list), a list, a family OF_ELEM of  *)
(* type-length-value elements with two variants, and a family OF_FIXED of  *)
(* fixed-length elements that carry no length on the wire.                 *)

MsgIds  == {"OF_MSG", "OF_MSGT"}
ElemIds == {"OF_ELEM_A", "OF_ELEM_B"}

\* of_object_fixed_len[version][id]
of_object_fixed_len(version, id) ==
    CASE id = "OF_MSG"    -> 8
      [] id = "OF_MSGT"   -> 12
      [] id = "OF_LIST"   -> 0
      [] id = "OF_ELEM"   -> 4
      [] id = "OF_ELEM_A" -> 8
      [] id = "OF_ELEM_B" -> 12
      [] id = "OF_FIXED"  -> 8
      [] OTHER            -> 0

\* the wire codes of the types
WireTypeOf(id) ==
    CASE id = "OF_MSG" -> 10 [] id = "OF_MSGT" -> 13
      [] id = "OF_ELEM_A" -> 1 [] id = "OF_ELEM_B" -> 2 [] OTHER -> 0
ElemIdOfWire(t) ==
    CASE t = 1 -> "OF_ELEM_A" [] t = 2 -> "OF_ELEM_B" [] t = 3 -> "OF_OTHER"
      [] OTHER -> "OF_OBJECT_INVALID"
MsgIdOfWire(t) ==
    CASE t = 10 -> "OF_MSG" [] t = 13 -> "OF_MSGT" [] OTHER -> "OF_OBJECT_INVALID"

\* of_wire_id_valid(id, base)
of_wire_id_valid(id, base) ==
    CASE base = "OF_ELEM" -> id \in ElemIds
      [] base = "OF_FIXED" -> id = "OF_FIXED"
      [] OTHER -> FALSE

\* obj->wire_length_set(obj, len): messages and elements keep a 16-bit length
\* at offset 2
wire_length_set(S, o, len) ==
    IF S.obj[o].wire_length_set = "NULL" THEN S ELSE WireSetU16(S, o, 2, len)
\* obj->wire_length_get(obj, &len)
wire_length_get(S, o) == WireGetU16(S, o, 2)
\* obj->wire_type_set(obj): a message stores version and type bytes, an element a
\* 16-bit type code
wire_type_set(S, o) ==
    CASE S.obj[o].wire_type_set = "msg" ->
            WireSetU8(WireSetU8(S, o, 0, S.obj[o].version), o, 1,
                      WireTypeOf(S.obj[o].object_id))
      [] S.obj[o].wire_type_set = "elem" ->
            WireSetU16(S, o, 0, WireTypeOf(S.obj[o].object_id))
      [] OTHER -> S
\* obj->wire_type_get(obj, &id)
wire_type_get(S, o) == ElemIdOfWire(WireGetU16(S, o, 0))

\* the accessors an initializer stamps on an object of type id (the fields it
\* does not set keep their value)
Stamp(r, id) ==
    CASE id \in MsgIds ->
            [r EXCEPT !.wire_length_get = "msg", !.wire_length_set = "msg",
                      !.wire_type_set = "msg"]
      [] id = "OF_ELEM" ->
            [r EXCEPT !.wire_length_get = "tlv16", !.wire_type_get = "elem"]
      [] id \in ElemIds ->
            [r EXCEPT !.wire_length_get = "tlv16", !.wire_length_set = "tlv16",
                      !.wire_type_set = "elem"]
      [] OTHER -> r

\* of_object_init_map[id](obj, version, bytes, clean_wire)
of_object_init(S, o, id, version, bytes, clean_wire) ==
    IF ~S.ok THEN S
    ELSE
    LET r0 == IF clean_wire THEN [ZeroObj EXCEPT !.alive = S.obj[o].alive]
              ELSE S.obj[o]
        b  == IF bytes < 0 THEN of_object_fixed_len(version, id) ELSE bytes
        r1 == Stamp([r0 EXCEPT !.version = version, !.length = b,
                               !.object_id = id], id)
        S1 == [S EXCEPT !.obj[o] = r1]
    IN IF r1.wbuf # NULL
       THEN of_wire_buffer_grow(S1, r1.wbuf, b + r1.obj_offset)
       ELSE S1

----------------------------------------------------------------------------
(* of_object.c *)

\* of_object_new(bytes); mem: the MALLOC of the object succeeds
of_object_new(S, o, bytes, mem) ==
    IF ~S.ok THEN S
    ELSE IF ~mem THEN Return(S, RET_NULL)
    ELSE LET S1 == [S EXCEPT !.obj[o] = [ZeroObj EXCEPT !.alive = TRUE]]
             b  == FreshBuf(S)
         IN IF bytes > 0
            THEN IF b = NULL THEN Return(S, RET_NULL)
                 ELSE Return([of_wire_buffer_new(S1, b, bytes) EXCEPT
                                 !.obj[o].wbuf = b, !.obj[o].owned = TRUE], RET_OBJ)
            ELSE Return(S1, RET_OBJ)

\* the delete that frees whatever buffer the object points at
of_object_delete_any_owner(S, o) ==
    IF ~S.ok \/ o = NULL THEN S
    ELSE LET S1 == IF S.obj[o].delete_cb THEN Event(S, "delete_cb", o) ELSE S
             S2 == of_wire_buffer_free(S1, S1.obj[o].wbuf)
         IN Event([S2 EXCEPT !.obj[o] = ZeroObj], "free_obj", o)

\* of_object_delete(obj); o = NULL: obj == NULL
of_object_delete(S, o) ==
    IF ~S.ok \/ o = NULL THEN S
    ELSE LET S1 == IF S.obj[o].delete_cb THEN Event(S, "delete_cb", o) ELSE S
             S2 == IF S1.obj[o].owned THEN of_wire_buffer_free(S1, S1.obj[o].wbuf)
                   ELSE S1
         IN Event([S2 EXCEPT !.obj[o] = ZeroObj], "free_obj", o)

\* OF_OBJECT_BUFFER_INDEX(obj, offset): the absolute index of an object's byte
OF_OBJECT_BUFFER_INDEX(S, o, offset) == S.obj[o].obj_offset + offset

\* the duplication that copies from the start of the source's buffer
of_object_dup_from_start(S, src, dst, mem) ==
    IF ~S.ok THEN S
    ELSE IF ~mem \/ FreshBuf(S) = NULL THEN Return(S, RET_NULL)
    ELSE IF S.obj[src].wbuf = NULL THEN Crash(S)
    ELSE LET b  == FreshBuf(S)
             s  == S.obj[src]
             S1 == [S EXCEPT !.obj[dst] = [ZeroObj EXCEPT !.alive = TRUE]]
             S2 == [of_wire_buffer_new(S1, b, s.length) EXCEPT
                       !.obj[dst].wbuf = b, !.obj[dst].owned = TRUE]
             S3 == of_object_init(S2, dst, s.object_id, s.version, s.length, FALSE)
         IN Return([S3 EXCEPT !.wbuf[b].buf =
                       CopyBytes(@, 0, S.wbuf[s.wbuf].buf, 0, s.length)], RET_OBJ)

\* of_object_dup(src), the duplicate built in slot dst
of_object_dup(S, src, dst, mem) ==
    IF ~S.ok THEN S
    ELSE IF ~mem \/ FreshBuf(S) = NULL THEN Return(S, RET_NULL)
    ELSE IF S.obj[src].wbuf = NULL \/ S.obj[src].object_id = "OF_OBJECT_INVALID"
         THEN Crash(S)
    ELSE LET b  == FreshBuf(S)
             s  == S.obj[src]
             S1 == [S EXCEPT !.obj[dst] = [ZeroObj EXCEPT !.alive = TRUE]]
             S2 == [of_wire_buffer_new(S1, b, s.length) EXCEPT
                       !.obj[dst].wbuf = b, !.obj[dst].owned = TRUE]
             S3 == of_object_init(S2, dst, s.object_id, s.version, s.length, FALSE)
             S4 == [S3 EXCEPT !.wbuf[b].buf =
                       CopyBytes(@, OF_OBJECT_BUFFER_INDEX(S3, dst, 0),
                                 S.wbuf[s.wbuf].buf,
                                 OF_OBJECT_BUFFER_INDEX(S, src, 0), s.length)]
         IN Return(S4, RET_OBJ)

\* the bind that returns OF_ERROR_PARAM for a NULL buffer or bytes <= 0
of_object_buffer_bind_param(S, o, buf_null, data, bytes, buf_free, made) ==
    IF ~S.ok THEN S
    ELSE IF buf_null \/ bytes <= 0 THEN Return(S, OF_ERROR_PARAM)
    ELSE IF ~made \/ FreshBuf(S) = NULL THEN Return(S, OF_ERROR_RESOURCE)
    ELSE Return([of_wire_buffer_new_bind(S, FreshBuf(S), data, bytes, buf_free)
                    EXCEPT !.obj[o].wbuf = FreshBuf(S), !.obj[o].owned = TRUE,
                           !.obj[o].obj_offset = 0, !.obj[o].length = bytes],
                OF_ERROR_NONE)

\* the bind that does not record the length in the object
of_object_buffer_bind_no_length(S, o, buf_null, data, bytes, buf_free, made) ==
    IF ~S.ok THEN S
    ELSE LET S0 == LOCI_ASSERT(LOCI_ASSERT(S, ~buf_null), bytes > 0)
         IN IF ~S0.ok THEN S0
            ELSE IF ~made \/ FreshBuf(S) = NULL
            THEN Return([S0 EXCEPT !.obj[o].wbuf = NULL, !.obj[o].obj_offset = 0,
                                   !.obj[o].owned = FALSE], OF_ERROR_RESOURCE)
            ELSE Return([of_wire_buffer_new_bind(S0, FreshBuf(S), data, bytes, buf_free)
                            EXCEPT !.obj[o].wbuf = FreshBuf(S), !.obj[o].owned = TRUE,
                                   !.obj[o].obj_offset = 0], OF_ERROR_NONE)

\* of_object_buffer_bind(obj, buf, bytes, buf_free); buf_null: buf == NULL,
\* otherwise buf points at the bytes `data`; made: of_wire_buffer_new_bind
\* returns a wire buffer (it returns NULL when its MALLOC fails, and may reject
\* a NULL buf or bytes <= 0)
of_object_buffer_bind(S, o, buf_null, data, bytes, buf_free, made) ==
    IF ~S.ok THEN S
    ELSE LET S0 == LOCI_ASSERT(LOCI_ASSERT(S, ~buf_null), bytes > 0)
             S1 == [S0 EXCEPT !.obj[o].wbuf = NULL, !.obj[o].obj_offset = 0,
                              !.obj[o].owned = FALSE]
             b  == FreshBuf(S)
         IN IF ~S0.ok THEN S0
            ELSE IF ~made \/ b = NULL THEN Return(S1, OF_ERROR_RESOURCE)
            ELSE Return([Event(of_wire_buffer_new_bind(S1, b, data, bytes, buf_free),
                               "bind", b)
                            EXCEPT !.obj[o].wbuf = b, !.obj[o].owned = TRUE,
                                   !.obj[o].length = bytes], OF_ERROR_NONE)

\* the attach that reserves no room in the buffer
object_child_attach_no_grow(S, parent, child, offset, bytes) ==
    IF ~S.ok THEN S
    ELSE [S EXCEPT !.obj[child].parent = parent,
                   !.obj[child].wbuf = S.obj[parent].wbuf,
                   !.obj[child].obj_offset = S.obj[parent].obj_offset + offset,
                   !.obj[child].owned = FALSE,
                   !.obj[child].length = IF bytes > 0 THEN bytes ELSE @]

\* of_message_version_get(msg), OF_VERSION_OKAY(version)
of_message_version_get(msg) == GetU8(msg, 0)
OF_VERSION_OKAY(version) == version >= 1 /\ version <= 4

\* of_header_wire_object_id_get(obj, &id): the message type of the header
of_header_wire_object_id_get(S, o) == MsgIdOfWire(WireGetU8(S, o, 1))

\* of_validate_message(msg, len): 0 (TRUE here) when the header is sound: a
\* known type, and the length field equal to len and not below the type's
\* fixed length
of_validate_message(msg, len) ==
    /\ len >= OF_MESSAGE_MIN_LENGTH
    /\ Len(msg) >= len
    /\ GetU16(msg, 2) = len
    /\ MsgIdOfWire(GetU8(msg, 1)) \in MsgIds
    /\ len >= of_object_fixed_len(GetU8(msg, 0), MsgIdOfWire(GetU8(msg, 1)))

\* the call of the validator: the log holds what it returned (0: sound)
Validated(S, msg, len) ==
    Event(S, "validate", IF of_validate_message(msg, len) THEN 0 ELSE 1)

\* the parse that binds the bytes whatever the validator returned
of_object_new_from_message_unchecked(S, o, msg, len, mem, made) ==
    IF ~S.ok THEN S
    ELSE LET version == of_message_version_get(msg)
             S1 == of_object_new(S, o, -1, mem)
             S2 == of_object_buffer_bind(S1, o, FALSE, msg, len, "msg_free", made)
             V  == Validated(S2, msg, len)
         IN IF ~OF_VERSION_OKAY(version) THEN Return(S, RET_NULL)
            ELSE IF S1.ret = RET_NULL THEN S1
            ELSE IF ~S2.ok THEN S2
            ELSE IF ~of_validate_message(msg, len) THEN Return(V, RET_NULL)
            ELSE Return([V EXCEPT !.obj[o].version = version], RET_OBJ)

\* of_object_new_from_message(msg, len), the object built in slot o
of_object_new_from_message(S, o, msg, len, mem, made) ==
    IF ~S.ok THEN S
    ELSE LET version == of_message_version_get(msg)
             V == Validated(S, msg, len)
         IN IF ~OF_VERSION_OKAY(version) THEN Return(S, RET_NULL)
            ELSE IF ~of_validate_message(msg, len) THEN Return(V, RET_NULL)
            ELSE LET S1 == of_object_new(V, o, -1, mem)
                     S2 == of_object_buffer_bind(S1, o, FALSE, msg, len, "msg_free", made)
                     S3 == [S2 EXCEPT !.obj[o].version = version]
                     id == of_header_wire_object_id_get(S3, o)
                 IN IF S1.ret = RET_NULL THEN S1
                    ELSE IF ~S2.ok THEN S2
                    ELSE IF S2.ret # OF_ERROR_NONE
                         THEN Return([V EXCEPT !.obj[o] = ZeroObj], RET_NULL)
                    ELSE Return(of_object_init(S3, o, id, version, len, FALSE), RET_OBJ)

\* the preallocated parse that does not look at the version
of_object_new_from_message_preallocated_any_version(S, o, b, msg, len) ==
    IF ~S.ok THEN S
    ELSE LET version == of_message_version_get(msg)
             S0 == [S EXCEPT !.obj[o] = ZeroObj, !.wbuf[b] = [ZeroBuf EXCEPT !.state = "live"]]
             V  == Validated(S0, msg, len)
             S1 == Event([V EXCEPT !.obj[o].version = version, !.obj[o].wbuf = b,
                                   !.wbuf[b].buf = msg, !.wbuf[b].alloc_bytes = len,
                                   !.wbuf[b].current_bytes = len,
                                   !.wbuf[b].bytes = "bound"], "bind", b)
             id == of_header_wire_object_id_get(S1, o)
         IN IF ~of_validate_message(msg, len) THEN Return(V, RET_NULL)
            ELSE Return(of_object_init(S1, o, id, version, len, FALSE), RET_OBJ)

\* of_object_new_from_message_preallocated(storage, buf, len): the object and
\* the wire buffer are the caller's storage (object slot o, buffer slot b)
of_object_new_from_message_preallocated(S, o, b, msg, len) ==
    IF ~S.ok THEN S
    ELSE LET version == of_message_version_get(msg)
             S0 == [S EXCEPT !.obj[o] = ZeroObj, !.wbuf[b] = [ZeroBuf EXCEPT !.state = "live"]]
             V  == Validated(S0, msg, len)
             S1 == Event([V EXCEPT !.obj[o].version = version, !.obj[o].wbuf = b,
                                   !.wbuf[b].buf = msg, !.wbuf[b].alloc_bytes = len,
                                   !.wbuf[b].current_bytes = len,
                                   !.wbuf[b].bytes = "bound"], "bind", b)
             id == of_header_wire_object_id_get(S1, o)
         IN IF ~OF_VERSION_OKAY(version) THEN Return(S0, RET_NULL)
            ELSE IF ~of_validate_message(msg, len) THEN Return(V, RET_NULL)
            ELSE Return(of_object_init(S1, o, id, version, len, FALSE), RET_OBJ)

\* the bounds check of of_wire_buffer_u32_set / _get: the 4 bytes at offset
\* lie within the current content of the buffer
WireU32InRange(S, b, offset) ==
    offset >= 0 /\ offset + 4 <= WBUF_CURRENT_BYTES(S, b)

\* the set that stores the low 16 bits of the xid only
of_object_xid_set_u16(S, o, xid) ==
    IF ~S.ok THEN S
    ELSE IF S.obj[o].wbuf = NULL THEN Return(S, OF_ERROR_PARAM)
    ELSE Return([S EXCEPT !.wbuf[S.obj[o].wbuf].buf =
                    SetU16(@, OF_OBJECT_ABSOLUTE_OFFSET(S, o, OF_MESSAGE_XID_OFFSET) + 2,
                           xid)],
                OF_ERROR_NONE)

\* of_object_xid_set(obj, xid); of_wire_buffer_u32_set writes nothing when
\* the bytes are out of range
of_object_xid_set(S, o, xid) ==
    IF ~S.ok THEN S
    ELSE IF S.obj[o].wbuf = NULL THEN Return(S, OF_ERROR_PARAM)
    ELSE IF ~WireU32InRange(S, S.obj[o].wbuf,
                            OF_OBJECT_ABSOLUTE_OFFSET(S, o, OF_MESSAGE_XID_OFFSET))
         THEN Return(S, OF_ERROR_NONE)
    ELSE Return([S EXCEPT !.wbuf[S.obj[o].wbuf].buf =
                    SetU32(@, OF_OBJECT_ABSOLUTE_OFFSET(S, o, OF_MESSAGE_XID_OFFSET), xid)],
                OF_ERROR_NONE)

\* of_object_xid_get(obj, &xid): the value stored in *xid
of_object_xid_get(S, o) ==
    GetU32(S.wbuf[S.obj[o].wbuf].buf, OF_OBJECT_ABSOLUTE_OFFSET(S, o, OF_MESSAGE_XID_OFFSET))

\* what of_object_xid_get returns
of_object_xid_get_status(S, o) ==
    IF S.obj[o].wbuf = NULL THEN OF_ERROR_PARAM ELSE OF_ERROR_NONE

\* *xid after of_object_xid_get, prior its value before: the call stores
\* nothing in it when the object has no buffer or the bytes are out of range
of_object_xid_get_value(S, o, prior) ==
    IF S.obj[o].wbuf # NULL
       /\ WireU32InRange(S, S.obj[o].wbuf,
                         OF_OBJECT_ABSOLUTE_OFFSET(S, o, OF_MESSAGE_XID_OFFSET))
    THEN of_object_xid_get(S, o)
    ELSE prior

\* object_child_attach(parent, child, offset, bytes)
object_child_attach(S, parent, child, offset, bytes) ==
    IF ~S.ok THEN S
    ELSE LET b  == S.obj[parent].wbuf
             S1 == [S EXCEPT !.obj[child].parent = parent,
                             !.obj[child].wbuf = b,
                             !.obj[child].obj_offset = S.obj[parent].obj_offset + offset,
                             !.obj[child].owned = FALSE]
         IN IF bytes > 0
            THEN LET tot_bytes == S.obj[parent].obj_offset + offset + bytes
                     S2 == of_wire_buffer_grow(S1, b, tot_bytes)
                 IN IF S2.ok THEN [S2 EXCEPT !.obj[child].length = bytes] ELSE S2
            ELSE S1

\* the capacity check without the object's offset
of_object_can_grow_no_offset(S, o, new_len) ==
    new_len <= WBUF_ALLOC_BYTES(S, S.obj[o].wbuf)

\* of_object_can_grow(obj, new_len)
of_object_can_grow(S, o, new_len) ==
    OF_OBJECT_ABSOLUTE_OFFSET(S, o, new_len) <= WBUF_ALLOC_BYTES(S, S.obj[o].wbuf)

\* of_object_parent_length_update(obj, delta): the loop, count iterations done
RECURSIVE parent_length_update_from(_, _, _, _)
parent_length_update_from(S, o, delta, count) ==
    IF ~S.ok \/ o = NULL THEN S
    ELSE LET S0 == LOCI_ASSERT(S, count < _MAX_PARENT_ITERATIONS)
             S1 == [S0 EXCEPT !.obj[o].length = @ + delta]
             S2 == IF S1.obj[o].wire_length_set # "NULL"
                   THEN wire_length_set(S1, o, S1.obj[o].length) ELSE S1
             b  == S.obj[o].wbuf
             end == S2.obj[o].length + S2.obj[o].obj_offset
             S3 == IF b = NULL
                   THEN IF S2.ndebug THEN S2 ELSE Crash(S2)
                   ELSE LOCI_ASSERT(
                            LOCI_ASSERT(S2, end <= WBUF_CURRENT_BYTES(S2, b)),
                            S2.obj[o].parent # NULL \/ end = WBUF_CURRENT_BYTES(S2, b))
         IN IF ~S0.ok THEN S0
            ELSE IF ~S2.ok THEN S2
            ELSE parent_length_update_from(S3, S3.obj[o].parent, delta, count + 1)

\* the update that stops at the object itself
of_object_parent_length_update_self(S, o, delta) ==
    IF ~S.ok \/ o = NULL THEN S
    ELSE wire_length_set([S EXCEPT !.obj[o].length = @ + delta], o,
                         S.obj[o].length + delta)

of_object_parent_length_update(S, o, delta) == parent_length_update_from(S, o, delta, 0)

\* OF_LENGTH_CHECK_ASSERT(obj)
OF_LENGTH_CHECK_ASSERT(S, o) ==
    IF ~S.ok THEN S
    ELSE LOCI_ASSERT(S, \/ S.obj[o].parent # NULL
                        \/ S.obj[o].wbuf = NULL
                        \/ WBUF_CURRENT_BYTES(S, S.obj[o].wbuf) = S.obj[o].length)

\* the append that attaches the child before it checks the room
of_list_append_bind_late_check(S, parent, child) ==
    IF ~S.ok THEN S
    ELSE IF parent = NULL \/ child = NULL THEN Return(S, OF_ERROR_PARAM)
    ELSE IF S.obj[parent].wbuf = NULL THEN Return(S, OF_ERROR_PARAM)
    ELSE LET S1 == object_child_attach(S, parent, child, S.obj[parent].length, 0)
         IN IF ~of_object_can_grow(S, parent, S.obj[parent].length + S.obj[child].length)
            THEN Return(S1, OF_ERROR_RESOURCE)
            ELSE Return(of_object_parent_length_update(
                            object_child_attach(S, parent, child, S.obj[parent].length,
                                                S.obj[child].length),
                            parent, S.obj[child].length), OF_ERROR_NONE)

\* of_list_append_bind(parent, child); 0 stands for a NULL object pointer
of_list_append_bind(S, parent, child) ==
    IF ~S.ok THEN S
    ELSE IF parent = NULL \/ child = NULL THEN Return(S, OF_ERROR_PARAM)
    ELSE IF S.obj[parent].wbuf = NULL THEN Return(S, OF_ERROR_PARAM)
    ELSE IF ~of_object_can_grow(S, parent, S.obj[parent].length + S.obj[child].length)
         THEN Return(S, OF_ERROR_RESOURCE)
    ELSE LET S1 == object_child_attach(S, parent, child, S.obj[parent].length,
                                       S.obj[child].length)
             S2 == IF S1.ok /\ S1.obj[child].wire_length_set # "NULL"
                   THEN wire_length_set(S1, child, S1.obj[child].length) ELSE S1
             S3 == IF S2.ok /\ S2.obj[child].wire_type_set # "NULL"
                   THEN wire_type_set(S2, child) ELSE S2
             S4 == of_object_parent_length_update(S3, parent, S3.obj[child].length)
         IN Return(OF_LENGTH_CHECK_ASSERT(S4, parent), OF_ERROR_NONE)

\* the append that copies the item to the start of the list
of_list_append_at_start(S, list, item) ==
    IF ~S.ok THEN S
    ELSE IF S.obj[list].wbuf = NULL \/ S.obj[item].wbuf = NULL THEN Crash(S)
    ELSE LET new_len == S.obj[list].length + S.obj[item].length
         IN IF ~of_object_can_grow(S, list, new_len) THEN Return(S, OF_ERROR_RESOURCE)
            ELSE LET b  == S.obj[list].wbuf
                     S1 == of_wire_buffer_grow(S, b,
                               OF_OBJECT_ABSOLUTE_OFFSET(S, list, new_len))
                     S2 == IF ~S1.ok THEN S1
                           ELSE [S1 EXCEPT !.wbuf[b].buf =
                                   CopyBytes(@, OF_OBJECT_BUFFER_INDEX(S, list, 0),
                                             S.wbuf[S.obj[item].wbuf].buf,
                                             OF_OBJECT_BUFFER_INDEX(S, item, 0),
                                             S.obj[item].length)]
                     S3 == of_object_parent_length_update(S2, list, S.obj[item].length)
                 IN Return(OF_LENGTH_CHECK_ASSERT(S3, list), OF_ERROR_NONE)

\* of_list_append(list, item)
of_list_append(S, list, item) ==
    IF ~S.ok THEN S
    ELSE IF S.obj[list].wbuf = NULL \/ S.obj[item].wbuf = NULL THEN Crash(S)
    ELSE LET new_len == S.obj[list].length + S.obj[item].length
         IN IF ~of_object_can_grow(S, list, new_len) THEN Return(S, OF_ERROR_RESOURCE)
            ELSE LET b  == S.obj[list].wbuf
                     S1 == of_wire_buffer_grow(S, b,
                               OF_OBJECT_ABSOLUTE_OFFSET(S, list, new_len))
                     S2 == IF ~S1.ok THEN S1
                           ELSE [S1 EXCEPT !.wbuf[b].buf =
                                   CopyBytes(@, OF_OBJECT_BUFFER_INDEX(S, list, S.obj[list].length),
                                             S.wbuf[S.obj[item].wbuf].buf,
                                             OF_OBJECT_BUFFER_INDEX(S, item, 0),
                                             S.obj[item].length)]
                     S3 == of_object_parent_length_update(S2, list, S.obj[item].length)
                 IN Return(OF_LENGTH_CHECK_ASSERT(S3, list), OF_ERROR_NONE)

\* the first that attaches the child before it looks at the list's length
of_list_first_attach_first(S, parent, child) ==
    IF ~S.ok THEN S
    ELSE IF S.obj[parent].length = 0
         THEN Return(object_child_attach(S, parent, child, 0, 0), OF_ERROR_RANGE)
    ELSE Return(object_child_attach(S, parent, child, 0, 0), OF_ERROR_NONE)

\* the first that attaches the child as for a write, reserving its bytes
of_list_first_reserve(S, parent, child) ==
    IF ~S.ok THEN S
    ELSE IF S.obj[parent].length = 0 THEN Return(S, OF_ERROR_RANGE)
    ELSE Return(object_child_attach(S, parent, child, 0, S.obj[parent].length + 8),
                OF_ERROR_NONE)

\* of_list_first(parent, child)
of_list_first(S, parent, child) ==
    IF ~S.ok THEN S
    ELSE IF S.obj[parent].length = 0 THEN Return(S, OF_ERROR_RANGE)
    ELSE Return(object_child_attach(S, parent, child, 0, 0), OF_ERROR_NONE)

\* the end test with > for >=
of_list_is_last_strict(S, parent, child) ==
    S.obj[child].obj_offset + S.obj[child].length
        > S.obj[parent].obj_offset + S.obj[parent].length

\* of_list_is_last(parent, child)
of_list_is_last(S, parent, child) ==
    S.obj[child].obj_offset + S.obj[child].length
        >= S.obj[parent].obj_offset + S.obj[parent].length

\* the next that attaches the child where it already is
of_list_next_stay(S, parent, child) ==
    IF ~S.ok THEN S
    ELSE IF ~LOCI_ASSERT(S, S.obj[child].length > 0).ok
         THEN LOCI_ASSERT(S, S.obj[child].length > 0)
    ELSE IF of_list_is_last(S, parent, child) THEN Return(S, OF_ERROR_RANGE)
    ELSE LET offset == S.obj[child].obj_offset - S.obj[parent].obj_offset
         IN Return(object_child_attach(S, parent, child, offset, 0), OF_ERROR_NONE)

\* of_list_next(parent, child)
of_list_next(S, parent, child) ==
    IF ~S.ok THEN S
    ELSE IF ~LOCI_ASSERT(S, S.obj[child].length > 0).ok
         THEN LOCI_ASSERT(S, S.obj[child].length > 0)
    ELSE IF of_list_is_last(S, parent, child) THEN Return(S, OF_ERROR_RANGE)
    ELSE LET offset == (S.obj[child].obj_offset - S.obj[parent].obj_offset)
                          + S.obj[child].length
         IN Return(object_child_attach(S, parent, child, offset, 0), OF_ERROR_NONE)

\* the steal that leaves the object pointing at its buffer
of_object_wire_buffer_steal_keep(S, o) ==
    IF ~S.ok THEN S
    ELSE IF o = NULL THEN IF S.ndebug THEN Crash(S) ELSE LOCI_ASSERT(S, FALSE)
    ELSE of_wire_buffer_steal(S, S.obj[o].wbuf)

\* of_object_wire_buffer_steal(obj, &buffer); o = NULL: obj == NULL
of_object_wire_buffer_steal(S, o) ==
    IF ~S.ok THEN S
    ELSE IF o = NULL THEN IF S.ndebug THEN Crash(S) ELSE LOCI_ASSERT(S, FALSE)
    ELSE LET S1 == of_wire_buffer_steal(S, S.obj[o].wbuf)
         IN IF S1.ok THEN [S1 EXCEPT !.obj[o].wbuf = NULL] ELSE S1

\* the initialization that does not compare the length with max_len
of_object_wire_init_no_max(S, o, base_object_id, max_len) ==
    IF ~S.ok THEN S
    ELSE IF S.obj[o].wbuf = NULL
            /\ (S.obj[o].wire_type_get # "NULL" \/ S.obj[o].wire_length_get # "NULL")
         THEN Crash(S)
    ELSE
    LET typed == S.obj[o].wire_type_get # "NULL"
        id    == wire_type_get(S, o)
        S1    == IF typed
                 THEN of_object_init([S EXCEPT !.obj[o].object_id = id], o, id,
                                     S.obj[o].version, -1, FALSE)
                 ELSE S
    IN IF typed /\ ~of_wire_id_valid(id, base_object_id)
       THEN Return(S, OF_ERROR_PARSE)
       ELSE IF ~S1.ok THEN S1
       ELSE IF S1.obj[o].wire_length_get # "NULL"
            THEN Return([S1 EXCEPT !.obj[o].length = wire_length_get(S1, o)],
                        OF_ERROR_NONE)
            ELSE Return([S1 EXCEPT !.obj[o].length =
                            of_object_fixed_len(S1.obj[o].version, base_object_id)],
                        OF_ERROR_NONE)

\* of_object_wire_init(obj, base_object_id, max_len)
of_object_wire_init(S, o, base_object_id, max_len) ==
    IF ~S.ok THEN S
    ELSE IF S.obj[o].wbuf = NULL
            /\ (S.obj[o].wire_type_get # "NULL" \/ S.obj[o].wire_length_get # "NULL")
         THEN Crash(S)
    ELSE
    LET typed == S.obj[o].wire_type_get # "NULL"
        id    == wire_type_get(S, o)
        S1    == IF typed
                 THEN of_object_init([S EXCEPT !.obj[o].object_id = id], o, id,
                                     S.obj[o].version, -1, FALSE)
                 ELSE S
    IN IF typed /\ ~of_wire_id_valid(id, base_object_id)
       THEN Return(S, OF_ERROR_PARSE)
       ELSE IF ~S1.ok THEN S1
       ELSE IF S1.obj[o].wire_length_get # "NULL"
            THEN LET length == wire_length_get(S1, o)
                 IN IF length < 0 \/ (max_len > 0 /\ length > max_len)
                    THEN Return(S1, OF_ERROR_PARSE)
                    ELSE Return([S1 EXCEPT !.obj[o].length = length], OF_ERROR_NONE)
            ELSE Return([S1 EXCEPT !.obj[o].length =
                            of_object_fixed_len(S1.obj[o].version, base_object_id)],
                        OF_ERROR_NONE)

----------------------------------------------------------------------------
(* The generated constructors and accessors that callers reach the generic  *)
(* layer through                                                            *)

\* of_<msg>_new(version): of_object_new, the type initializer, then the header
\* values pushed to the wire
of_msg_new(S, o, id, cap, mem) ==
    LET S1 == of_object_new(S, o, cap, mem)
    IN IF S1.ret # RET_OBJ THEN S1
       ELSE LET S2 == of_object_init(S1, o, id, OF_VERSION_1_0, -1, FALSE)
                S3 == wire_type_set(S2, o)
                S4 == wire_length_set(S3, o, S3.obj[o].length)
            IN Return(S4, RET_OBJ)

\* the list of a message starts after the header; OF_MSGT keeps 4 bytes after it
ListOffset == 8
TrailerLen(id) == IF id = "OF_MSGT" THEN 4 ELSE 0

\* of_<msg>_<list>_bind(msg, list): the get accessor of the list member
of_msg_list_bind(S, msg, list) ==
    LET cur_len == S.obj[msg].length - ListOffset - TrailerLen(S.obj[msg].object_id)
        S1 == of_object_init(S, list, "OF_LIST", S.obj[msg].version, 0, TRUE)
        S2 == object_child_attach(S1, msg, list, ListOffset, 0)
    IN Return([S2 EXCEPT !.obj[list].length = cur_len], OF_ERROR_NONE)

----------------------------------------------------------------------------
(* The state machine.  op is the last call made, ret what it returned.  hist *)
(* remembers what the callers did, for the statements about sequences of    *)
(* calls:                                                                   *)
(*   elems    the lengths of the elements appended to the message's list    *)
(*   binds    the lengths appended by of_list_append_bind since the list    *)
(*            object was bound empty; c1 says whether that is all of it     *)
(*   start    every object's length when the list object was bound          *)
(*   iter     where the iteration with ELEM stands: "none", "pos" (child    *)
(*            positioned by first/next), "ready" (its length read from the  *)
(*            wire); visited: the child's offsets relative to the list      *)
(*   dupsrc   the object DUPO was duplicated from                           *)

Cur == St(obj, wbuf, ndebug)

\* the parent chain of an object: itself, its parent, ... up to the root
RECURSIVE ChainOf(_, _)
ChainOf(S, o) ==
    IF o = NULL THEN {}
    ELSE {o} \cup (IF S.obj[o].parent = o THEN {} ELSE ChainOf(S, S.obj[o].parent))

\* the lengths of the objects on the list's chain (0 for the others)
Lengths(S) == [o \in Objs |-> IF o \in ChainOf(S, LIST) THEN S.obj[o].length ELSE 0]

Hist0 == [elems |-> <<>>, binds |-> <<>>, c1 |-> FALSE,
          start |-> [o \in Objs |-> 0], iter |-> "none", visited |-> <<>>,
          dupsrc |-> NULL]

Step(S, name, p, c, x, h) ==
    /\ obj' = S.obj
    /\ wbuf' = S.wbuf
    /\ ok' = S.ok
    /\ ret' = S.ret
    /\ op' = [name |-> name, p |-> p, c |-> c, x |-> x, base |-> "", log |-> S.log]
    /\ hist' = h
    /\ UNCHANGED ndebug

Init ==
    /\ obj = [o \in Objs |-> ZeroObj]
    /\ wbuf = [b \in Bufs |-> ZeroBuf]
    /\ ok = TRUE
    /\ ret = OF_ERROR_NONE
    /\ op = [name |-> "init", p |-> NULL, c |-> NULL, x |-> 0, base |-> "", log |-> <<>>]
    /\ hist = Hist0
    /\ ndebug \in BOOLEAN

MsgNew ==
    /\ ok /\ ~obj[MSG].alive
    /\ \E id \in MsgIds, cap \in Caps, mem \in BOOLEAN :
          Step(of_msg_new(Cur, MSG, id, cap, mem), "of_msg_new", MSG, NULL, 0, hist)

ListBind ==
    /\ ok /\ obj[MSG].wbuf # NULL
    /\ LET S == of_msg_list_bind(Cur, MSG, LIST)
       IN Step(S, "of_msg_list_bind", MSG, LIST, 0,
               IF S.obj[LIST].length = 0
               THEN [hist EXCEPT !.c1 = TRUE, !.binds = <<>>, !.start = Lengths(S)]
               ELSE [hist EXCEPT !.c1 = FALSE])

\* of_<elem>_init(child, version, -1, 1) before an append
ElemInit ==
    /\ ok
    /\ \E id \in ElemIds :
          Step(of_object_init(Cur, ELEM, id, OF_VERSION_1_0, -1, TRUE),
               "of_elem_init", ELEM, NULL, 0,
               [hist EXCEPT !.iter = "none", !.visited = <<>>])

\* of_elem_init(child, version, 0, 1), the base initializer, before an iteration
ElemBaseInit ==
    /\ ok
    /\ Step(of_object_init(Cur, ELEM, "OF_ELEM", OF_VERSION_1_0, 0, TRUE),
            "of_elem_init", ELEM, NULL, 0,
            [hist EXCEPT !.iter = "none", !.visited = <<>>])

AppendBindUpTo(n) ==
    /\ ok /\ Len(hist.elems) < n
    /\ \E p \in {NULL, LIST}, c \in {NULL, ELEM} :
          LET S == of_list_append_bind(Cur, p, c)
              done == S.ok /\ S.ret = OF_ERROR_NONE
          IN Step(S, "of_list_append_bind", p, c, 0,
                  IF done
                  THEN [hist EXCEPT !.elems = Append(@, S.obj[c].length),
                                    !.binds = Append(@, S.obj[c].length),
                                    !.iter = "none", !.visited = <<>>]
                  ELSE hist)

AppendBind == AppendBindUpTo(MaxAppends)

ItemNew ==
    /\ ok /\ ~obj[ITEM].alive /\ obj[LIST].wbuf # NULL
    /\ \E id \in ElemIds, mem \in BOOLEAN :
          Step(of_msg_new(Cur, ITEM, id, of_object_fixed_len(OF_VERSION_1_0, id), mem),
               "of_elem_new", ITEM, NULL, 0, hist)

ListAppendUpTo(n) ==
    /\ ok /\ Len(hist.elems) < n
    /\ obj[LIST].wbuf # NULL /\ obj[ITEM].wbuf # NULL
    /\ LET S == of_list_append(Cur, LIST, ITEM)
           done == S.ok /\ S.ret = OF_ERROR_NONE
       IN Step(S, "of_list_append", LIST, ITEM, 0,
               IF done
               THEN [hist EXCEPT !.elems = Append(@, S.obj[ITEM].length), !.c1 = FALSE]
               ELSE hist)

ListAppend == ListAppendUpTo(MaxAppends)

RelOffset(S) == S.obj[ELEM].obj_offset - S.obj[LIST].obj_offset

First ==
    /\ ok
    /\ LET S == of_list_first(Cur, LIST, ELEM)
       IN Step(S, "of_list_first", LIST, ELEM, 0,
               IF S.ret = OF_ERROR_NONE
               THEN [hist EXCEPT !.iter = "pos", !.visited = <<RelOffset(S)>>]
               ELSE hist)

WireInit ==
    /\ ok /\ obj[ELEM].wbuf # NULL
    /\ \E max_len \in {0, obj[LIST].length} :
          LET S == of_object_wire_init(Cur, ELEM, "OF_ELEM", max_len)
          IN Step(S, "of_object_wire_init", ELEM, NULL, max_len,
                  IF S.ok /\ S.ret = OF_ERROR_NONE
                  THEN [hist EXCEPT !.iter = IF @ = "none" THEN "none" ELSE "ready"]
                  ELSE [hist EXCEPT !.iter = "none", !.visited = <<>>])

ListNext ==
    /\ ok
    /\ LET S == of_list_next(Cur, LIST, ELEM)
       IN Step(S, "of_list_next", LIST, ELEM, 0,
               IF hist.iter # "ready" \/ ~S.ok
               THEN [hist EXCEPT !.iter = "none", !.visited = <<>>]
               ELSE IF S.ret = OF_ERROR_NONE
               THEN [hist EXCEPT !.iter = "pos", !.visited = Append(@, RelOffset(S))]
               ELSE hist)

Next ==
    \/ MsgNew
    \/ ListBind
    \/ ElemInit
    \/ AppendBind
    \/ ItemNew
    \/ ListAppend

Spec == Init /\ [][Next]_vars

----------------------------------------------------------------------------
(* Properties of appending (Spec) *)

\* the objects of a chain end within / exactly at the current content of the buffer
Within(o) ==
    obj[o].wbuf # NULL =>
        obj[o].obj_offset + obj[o].length <= wbuf[obj[o].wbuf].current_bytes
AtEnd(o) ==
    obj[o].wbuf # NULL /\
        obj[o].obj_offset + obj[o].length = wbuf[obj[o].wbuf].current_bytes

AppendOps == {"of_list_append_bind", "of_list_append"}
Appended == ok /\ op.name \in AppendOps /\ ret = OF_ERROR_NONE

\* C1: a list bound empty that received successful of_list_append_bind calls
\* with children of lengths s1..sN has byte length s1+...+sN, and every
\* ancestor up to the root has grown by the same sum (capacity 64, header 8,
\* appends 8, 12, 8: message length 36).
C1_AppendBindSums ==
    (ok /\ hist.c1) =>
        /\ obj[LIST].length = Sum(hist.binds)
        /\ \A a \in ChainOf(Cur, LIST) : obj[a].length = hist.start[a] + Sum(hist.binds)
        /\ (hist.binds = <<8, 12, 8>> /\ hist.start[MSG] = 8) => obj[MSG].length = 36

C1_Witness ==
    /\ ok /\ hist.c1 /\ hist.binds = <<8, 12, 8>>
    /\ op.name = "of_list_append_bind" /\ ret = OF_ERROR_NONE
    /\ obj[LIST].obj_offset = 8 /\ obj[LIST].parent = MSG
    /\ wbuf[obj[MSG].wbuf].alloc_bytes = 64
    /\ obj[MSG].length = 36

C6_AppendBindErrors ==
    [][ (ok /\ op'.name = "of_list_append_bind") =>
          LET p == op'.p
              c == op'.c
              absent == p = NULL \/ c = NULL \/ obj[p].wbuf = NULL
          IN /\ absent => ret' = OF_ERROR_PARAM
             /\ ~absent =>
                   (ret' = OF_ERROR_RESOURCE <=>
                      obj[p].obj_offset + obj[p].length + obj[c].length
                          > wbuf[obj[p].wbuf].alloc_bytes)
             /\ ret' \in {OF_ERROR_PARAM, OF_ERROR_RESOURCE} =>
                   obj' = obj /\ wbuf' = wbuf /\ ok' ]_vars

C6_Witness ==
    /\ op.name = "of_list_append_bind" /\ ret = OF_ERROR_RESOURCE
    /\ op.p = LIST /\ op.c = ELEM
    /\ obj[LIST].length > 0 /\ obj[ELEM].length > 0 /\ obj[ELEM].wbuf = NULL

----------------------------------------------------------------------------
(* Iteration: the program has built a message whose list holds the elements *)
(* of the kinds `kinds` (of_msg_new, the list's get accessor, then one      *)
(* initializer and one of_list_append_bind per element), and iterates it.   *)

\* lists of at most this many elements are iterated
MaxElems == 3

RECURSIVE KindSeqs(_)
KindSeqs(n) ==
    IF n = 0 THEN {<<>>}
    ELSE KindSeqs(n - 1) \cup
         {Append(q, k) : q \in {r \in KindSeqs(n - 1) : Len(r) = n - 1}, k \in ElemIds}

RECURSIVE AppendAll(_, _)
AppendAll(S, kinds) ==
    IF kinds = <<>> THEN S
    ELSE LET S1 == of_list_append_bind(
                       of_object_init(S, ELEM, Head(kinds), OF_VERSION_1_0, -1, TRUE),
                       LIST, ELEM)
         IN IF S1.ret # OF_ERROR_NONE THEN S1 ELSE AppendAll(S1, Tail(kinds))

Built(id, cap, kinds, nd) ==
    AppendAll(of_msg_list_bind(of_msg_new(St([o \in Objs |-> ZeroObj],
                                             [b \in Bufs |-> ZeroBuf], nd),
                                          MSG, id, cap, TRUE), MSG, LIST), kinds)

SizesOf(kinds) == [i \in 1..Len(kinds) |-> of_object_fixed_len(OF_VERSION_1_0, kinds[i])]

InitBuilt(seqs, caps) ==
    \E cap \in caps, kinds \in seqs, nd \in BOOLEAN :
       LET S == Built("OF_MSG", cap, kinds, nd)
       IN /\ S.ok /\ S.ret = OF_ERROR_NONE
          /\ ndebug = nd
          /\ obj = S.obj
          /\ wbuf = S.wbuf
          /\ ok = TRUE
          /\ ret = OF_ERROR_NONE
          /\ op = [name |-> "init", p |-> NULL, c |-> NULL, x |-> 0, base |-> "", log |-> <<>>]
          /\ hist = [Hist0 EXCEPT !.elems = SizesOf(kinds)]

InitIter == InitBuilt(KindSeqs(MaxElems), Caps)

NextIter ==
    \/ ElemBaseInit
    \/ First
    \/ WireInit
    \/ ListNext

SpecIter == InitIter /\ [][NextIter]_vars

\* the prefix sums 0, s1, s1+s2, ... of the first n lengths
PrefixSum(s, n) == Sum(SubSeq(s, 1, n))

\* C2: on a list of N elements of lengths s1..sN > 0, of_list_first and the
\* of_list_next calls that follow it (the child's length read from the wire
\* after each) succeed N times in all and put the child at the relative
\* offsets 0, s1, s1+s2, ...; the next call after the Nth element returns
\* OF_ERROR_RANGE.
C2_IterationPrefixSums ==
    (ok /\ \A i \in 1..Len(hist.elems) : hist.elems[i] > 0) =>
        /\ (op.name = "of_list_first" /\ Len(hist.elems) > 0) => ret = OF_ERROR_NONE
        /\ hist.iter # "none" =>
              /\ Len(hist.visited) <= Len(hist.elems)
              /\ \A i \in 1..Len(hist.visited) :
                    hist.visited[i] = PrefixSum(hist.elems, i - 1)
              /\ (op.name = "of_list_next" /\ ret # OF_ERROR_NONE) =>
                    ret = OF_ERROR_RANGE /\ Len(hist.visited) = Len(hist.elems)

C2_Witness ==
    /\ ok /\ hist.iter = "ready" /\ hist.elems = <<8, 12, 8>>
    /\ hist.visited = <<0, 8, 20>>
    /\ op.name = "of_list_next" /\ ret = OF_ERROR_RANGE
    /\ obj[ELEM].length = 8 /\ obj[ELEM].obj_offset = 28

\* C7: of_list_first on a parent of byte length 0 returns OF_ERROR_RANGE and
\* leaves every field of the child as it was.
C7_FirstOnEmpty ==
    [][ (ok /\ op'.name = "of_list_first" /\ obj[op'.p].length = 0) =>
          /\ ret' = OF_ERROR_RANGE
          /\ obj'[op'.c] = obj[op'.c] ]_vars

C7_Witness ==
    /\ op.name = "of_list_first" /\ ret = OF_ERROR_RANGE
    /\ obj[LIST].length = 0 /\ obj[LIST].wbuf # NULL
    /\ obj[ELEM].object_id = "OF_ELEM" /\ obj[ELEM].parent = NULL
    /\ obj[ELEM].wbuf = NULL

----------------------------------------------------------------------------
(* Lifecycle: objects made by allocation, by binding or parsing the caller's *)
(* bytes and by duplication, then appended to and written.                   *)

\* successful appends to the message's list in a lifecycle run
MaxLifeAppends == 1

\* the caller's messages: a sound 8-byte message, a sound 16-byte message
\* holding one element, one of an unknown version, one whose length field
\* is not the length given
ExtMsgs ==
    { <<1, 10, 0, 8, 0, 0, 0, 0>>,
      <<1, 10, 0, 16, 0, 0, 0, 0, 0, 1, 0, 8, 0, 0, 0, 0>>,
      <<9, 10, 0, 8, 0, 0, 0, 0>>,
      <<1, 10, 0, 12, 0, 0, 0, 0>> }

XidVals == {16909060}

Unmade(o) == ~obj[o].alive /\ obj[o].wbuf = NULL

\* of_object_new(-1): an object with no buffer
ObjNew ==
    /\ ok /\ Unmade(MSG)
    /\ \E mem \in BOOLEAN :
          Step(of_object_new(Cur, MSG, -1, mem), "of_object_new", MSG, NULL, -1, hist)

\* op.c = 0 for a NULL buffer, op.x the length given
BufferBind ==
    /\ ok /\ obj[MSG].alive /\ obj[MSG].wbuf = NULL
    /\ \E buf_null \in BOOLEAN, data \in ExtMsgs, made \in BOOLEAN :
       \E bytes \in {-1, 0, Len(data)} :
          Step(of_object_buffer_bind(Cur, MSG, buf_null,
                                     IF buf_null THEN <<>> ELSE data, bytes,
                                     "msg_free", made),
               "of_object_buffer_bind", MSG, IF buf_null THEN 0 ELSE 1, bytes, hist)

Parse ==
    /\ ok /\ Unmade(MSG)
    /\ \E msg \in ExtMsgs, mem \in BOOLEAN, made \in BOOLEAN :
          Step(of_object_new_from_message(Cur, MSG, msg, Len(msg), mem, made),
               "of_object_new_from_message", MSG, NULL, Len(msg), hist)

ParsePreallocated ==
    /\ ok /\ Unmade(MSG) /\ FreshBuf(Cur) # NULL
    /\ \E msg \in ExtMsgs :
          Step(of_object_new_from_message_preallocated(Cur, MSG, FreshBuf(Cur), msg,
                                                       Len(msg)),
               "of_object_new_from_message_preallocated", MSG, NULL, Len(msg), hist)

\* the list accessor of a typed message
LifeListBind == obj[MSG].object_id \in MsgIds /\ ListBind

LifeAppendBind == AppendBindUpTo(MaxLifeAppends)
LifeListAppend == ListAppendUpTo(MaxLifeAppends)

Dup ==
    /\ ok /\ Unmade(DUPO)
    /\ \E src \in {MSG, LIST, ELEM}, mem \in BOOLEAN :
          /\ obj[src].wbuf # NULL /\ obj[src].length > 0
          /\ obj[src].object_id # "OF_OBJECT_INVALID"
          /\ LET S == of_object_dup(Cur, src, DUPO, mem)
             IN Step(S, "of_object_dup", src, DUPO, 0,
                     IF S.ret = RET_OBJ THEN [hist EXCEPT !.dupsrc = src] ELSE hist)

XidSet ==
    /\ ok
    /\ \E o \in {MSG, DUPO}, v \in XidVals :
          /\ obj[o].object_id \in MsgIds /\ obj[o].wbuf # NULL
          /\ Step(of_object_xid_set(Cur, o, v), "of_object_xid_set", o, NULL, v, hist)

DupAppendBind ==
    /\ ok /\ obj[DUPO].alive
    /\ Step(of_list_append_bind(Cur, DUPO, ELEM), "of_list_append_bind", DUPO, ELEM, 0,
            hist)

DupAppend ==
    /\ ok /\ obj[DUPO].alive /\ obj[ITEM].wbuf # NULL
    /\ Step(of_list_append(Cur, DUPO, ITEM), "of_list_append", DUPO, ITEM, 0, hist)

NextLife ==
    \/ MsgNew
    \/ ObjNew
    \/ BufferBind
    \/ Parse
    \/ ParsePreallocated
    \/ LifeListBind
    \/ ElemInit
    \/ LifeAppendBind
    \/ ItemNew
    \/ LifeListAppend
    \/ Dup

SpecLife == Init /\ [][NextLife]_vars

----------------------------------------------------------------------------
(* Properties of the lifecycle (SpecLife) *)

\* a root: an object that has a buffer and no parent
IsRoot(o) == obj[o].wbuf # NULL /\ obj[o].parent = NULL
RootsExact == \A o \in Objs : IsRoot(o) => AtEnd(o)

AppendNotAtTail ==
    /\ op'.name \in AppendOps /\ ret' = OF_ERROR_NONE
    /\ \E a \in ChainOf(Cur, op'.p) : ~AtEnd(a)

C5_CurrentWithinAlloc ==
    \A b \in Bufs : wbuf[b].state = "live" =>
        wbuf[b].current_bytes <= wbuf[b].alloc_bytes

\* an append that of_object_can_grow let through filled the buffer to its
\* capacity
C5_Witness ==
    /\ ok /\ op.name \in AppendOps /\ ret = OF_ERROR_NONE
    /\ Len(hist.elems) = 1
    /\ obj[MSG].wbuf # NULL
    /\ wbuf[obj[MSG].wbuf].current_bytes = wbuf[obj[MSG].wbuf].alloc_bytes
    /\ wbuf[obj[MSG].wbuf].alloc_bytes = 16

\* the call of of_object_buffer_bind just made had a NULL buffer or a length
\* that is not positive
BindBadArgs ==
    ok /\ op'.name = "of_object_buffer_bind" /\ (op'.c = 0 \/ op'.x <= 0)

\* C8 as stated: of_object_buffer_bind with a NULL buffer or bytes <= 0
\* returns OF_ERROR_PARAM and leaves the object without a buffer, its length
\* and ownership as they were.
C8_BindBadArgsParam ==
    [][ BindBadArgs =>
          /\ ok' /\ ret' = OF_ERROR_PARAM
          /\ obj'[op'.p].wbuf = NULL
          /\ obj'[op'.p].length = obj[op'.p].length
          /\ obj'[op'.p].owned = obj[op'.p].owned ]_vars

\* C8: of_object_buffer_bind with a NULL buffer or bytes <= 0 never returns
\* OF_ERROR_PARAM. With assertions compiled in it ends in a failed assertion
\* and has changed nothing; without them it goes on to of_wire_buffer_new_bind
\* and returns OF_ERROR_RESOURCE with the object unbound, or OF_ERROR_NONE
\* with the object bound and its length set to bytes.
C8_BindBadArgsAssert ==
    [][ BindBadArgs =>
          /\ ret' # OF_ERROR_PARAM
          /\ ~ndebug => (~ok' /\ ret' = ASSERT_FAILED /\ obj' = obj /\ wbuf' = wbuf)
          /\ ndebug =>
                /\ ok' /\ ret' \in {OF_ERROR_RESOURCE, OF_ERROR_NONE}
                /\ ret' = OF_ERROR_RESOURCE => obj'[op'.p].wbuf = NULL
                /\ ret' = OF_ERROR_NONE =>
                      /\ obj'[op'.p].wbuf # NULL /\ obj'[op'.p].owned
                      /\ obj'[op'.p].length = op'.x ]_vars

\* a bind of a NULL buffer ended in the failed assertion
C8_Witness ==
    /\ op.name = "of_object_buffer_bind" /\ op.c = 0
    /\ ~ok /\ ret = ASSERT_FAILED /\ ~ndebug
    /\ obj[MSG].alive /\ obj[MSG].wbuf = NULL

----------------------------------------------------------------------------
(* Duplication: the program has built a message and its list, duplicates    *)
(* one of its objects, and goes on writing and appending on both sides.      *)

\* the list holds this many elements when the run starts, and one more can be
\* appended
MaxDupElems == 1

InitDup == InitBuilt({q \in KindSeqs(MaxDupElems) : Len(q) = MaxDupElems}, {64})

DupSrcAppendBind == AppendBindUpTo(MaxDupElems + 1)
DupSrcAppend == ListAppendUpTo(MaxDupElems + 1)

NextDup ==
    \/ Dup
    \/ XidSet
    \/ ElemInit
    \/ ItemNew
    \/ DupSrcAppendBind
    \/ DupSrcAppend
    \/ DupAppendBind
    \/ DupAppend

SpecDup == InitDup /\ [][NextDup]_vars

----------------------------------------------------------------------------
(* Properties of duplication (SpecDup) *)

\* the step was a successful of_object_dup
Dupped == ok /\ op'.name = "of_object_dup" /\ ret' = RET_OBJ

\* the duplicate is a root that owns a buffer of its own, as long as the
\* source and holding the bytes of the source's region; the source is as it was
DupCopies ==
    LET s == obj[op'.p]
        d == obj'[DUPO]
    IN /\ d.obj_offset = 0 /\ d.parent = NULL /\ d.owned
       /\ d.length = s.length
       /\ d.wbuf # NULL /\ d.wbuf # s.wbuf
       /\ \A i \in 0..(s.length - 1) :
             GetU8(wbuf'[d.wbuf].buf, i) = GetU8(wbuf[s.wbuf].buf, s.obj_offset + i)
       /\ obj'[op'.p] = obj[op'.p]
       /\ wbuf'[s.wbuf] = wbuf[s.wbuf]

\* a later step on the duplicate, and a later step that is not on it
OnDup == ok /\ hist.dupsrc # NULL /\ op'.p = DUPO
OffDup == ok /\ hist.dupsrc # NULL /\ op'.p # DUPO

\* C9: of_object_dup yields a root (offset 0, no parent, owning its buffer, as
\* long as src) on a buffer other than src's, whose bytes are those of src's
\* region, also for a src at a non-zero offset; afterwards a write or append on
\* the duplicate leaves src's object and buffer as they were, and a write or
\* append on src's side leaves the duplicate and its buffer as they were.
C9_DupIndependent ==
    [][ /\ Dupped => DupCopies
        /\ OnDup =>
              /\ obj'[hist.dupsrc] = obj[hist.dupsrc]
              /\ \A b \in Bufs \ {obj[DUPO].wbuf} : wbuf'[b] = wbuf[b]
        /\ OffDup =>
              /\ obj'[DUPO] = obj[DUPO]
              /\ wbuf'[obj[DUPO].wbuf] = wbuf[obj[DUPO].wbuf] ]_vars

\* the duplicate of an element at offset 8 was made, the list of the source
\* then grew by an append, and the duplicate still holds the element's bytes
C9_Witness ==
    /\ ok /\ hist.dupsrc = ELEM
    /\ op.name = "of_list_append_bind" /\ op.p = LIST /\ ret = OF_ERROR_NONE
    /\ Len(hist.elems) = MaxDupElems + 1
    /\ obj[DUPO].length = 8 /\ obj[DUPO].obj_offset = 0
    /\ wbuf[obj[DUPO].wbuf].buf = <<0, 1, 0, 8, 0, 0, 0, 0>>

\* a write to the duplicate of a message changed its xid and not the source's
C9_WitnessWrite ==
    /\ ok /\ hist.dupsrc = MSG
    /\ op.name = "of_object_xid_set" /\ op.p = DUPO
    /\ of_object_xid_get(Cur, DUPO) # of_object_xid_get(Cur, MSG)

----------------------------------------------------------------------------
(* Initialization from the wire: the program has parsed a message of the     *)
(* caller whose list region holds an element header with any type code and  *)
(* any length field, and walks the list.                                    *)

\* the type codes and length fields the caller's bytes hold
WireTypes == {1, 2, 3, 7}
WireLens  == {0, 4, 8, 12, 300}
\* what callers pass to of_object_wire_init
Bases   == {"OF_ELEM", "OF_FIXED"}
MaxLens == {-1, 0, 8, 12}

\* a 20-byte message: the header and 12 bytes of list
WireMsg(t, l) ==
    <<1, 10, 0, 20, 0, 0, 0, 0,
      t \div 256, t % 256, l \div 256, l % 256, 0, 0, 0, 0, 0, 0, 0, 0>>

InitWire ==
    \E t \in WireTypes, l \in WireLens, nd \in BOOLEAN :
       LET S0 == St([o \in Objs |-> ZeroObj], [b \in Bufs |-> ZeroBuf], nd)
           S  == of_msg_list_bind(
                     of_object_new_from_message(S0, MSG, WireMsg(t, l), 20, TRUE, TRUE),
                     MSG, LIST)
       IN /\ ndebug = nd
          /\ obj = S.obj
          /\ wbuf = S.wbuf
          /\ ok = TRUE
          /\ ret = OF_ERROR_NONE
          /\ op = [name |-> "init", p |-> NULL, c |-> NULL, x |-> 0, base |-> "", log |-> <<>>]
          /\ hist = Hist0

\* of_fixed_init(child, version, -1, 1): an element of the family that keeps
\* no type and no length on the wire
FixedInit ==
    /\ ok
    /\ Step(of_object_init(Cur, ELEM, "OF_FIXED", OF_VERSION_1_0, -1, TRUE),
            "of_fixed_init", ELEM, NULL, 0,
            [hist EXCEPT !.iter = "none", !.visited = <<>>])

\* op.base the family asked for, op.x the max_len given
WireInitAny ==
    /\ ok
    /\ \E base \in Bases, max_len \in MaxLens :
          LET S == of_object_wire_init(Cur, ELEM, base, max_len)
          IN /\ obj' = S.obj
             /\ wbuf' = S.wbuf
             /\ ok' = S.ok
             /\ ret' = S.ret
             /\ op' = [name |-> "of_object_wire_init", p |-> ELEM, c |-> NULL,
                       x |-> max_len, base |-> base, log |-> S.log]
             /\ hist' = [hist EXCEPT !.iter = "none", !.visited = <<>>]
             /\ UNCHANGED ndebug

NextWire ==
    \/ ElemBaseInit
    \/ FixedInit
    \/ First
    \/ WireInitAny

SpecWire == InitWire /\ [][NextWire]_vars

----------------------------------------------------------------------------
(* Properties of initialization from the wire (SpecWire) *)

\* the type code and the length field at the object's place in its buffer
TypeOnWire(o) == GetU16(wbuf[obj[o].wbuf].buf, obj[o].obj_offset)
LenOnWire(o) == GetU16(wbuf[obj[o].wbuf].buf, obj[o].obj_offset + 2)
\* the codes 1 and 2 are the family OF_ELEM; OF_FIXED has no code on the wire
InFamily(t, base) == base = "OF_ELEM" /\ t \in {1, 2}

\* the step was of_object_wire_init on an object that has a buffer
WireInited == ok /\ op'.name = "of_object_wire_init" /\ obj[op'.p].wbuf # NULL

\* C10: of_object_wire_init returns OF_ERROR_PARSE when the object reads its
\* type from the wire and the type is not of the family asked for, and when
\* the length it decodes is negative or, for max_len > 0, above max_len;
\* otherwise it returns OF_ERROR_NONE and the object's length is the decoded
\* length or, for an object with no length accessor, the fixed length of the
\* family asked for.
C10_WireInit ==
    [][ WireInited =>
          LET o      == op'.p
              typed  == obj[o].wire_type_get # "NULL"
              badty  == typed /\ ~InFamily(TypeOnWire(o), op'.base)
              haslen == obj'[o].wire_length_get # "NULL"
              len    == LenOnWire(o)
              badlen == haslen /\ (len < 0 \/ (op'.x > 0 /\ len > op'.x))
          IN /\ ok'
             /\ badty => ret' = OF_ERROR_PARSE
             /\ (~badty /\ badlen) => ret' = OF_ERROR_PARSE
             /\ (~badty /\ ~badlen) =>
                   /\ ret' = OF_ERROR_NONE
                   /\ obj'[o].length =
                         IF haslen THEN len
                         ELSE of_object_fixed_len(obj[o].version, op'.base) ]_vars

\* an element of the family whose length field, 12, is above the max_len
\* given, 8: the call returned OF_ERROR_PARSE
C10_Witness ==
    /\ ok /\ op.name = "of_object_wire_init" /\ op.base = "OF_ELEM" /\ op.x = 8
    /\ ret = OF_ERROR_PARSE
    /\ obj[ELEM].wbuf # NULL /\ obj[ELEM].object_id \in ElemIds
    /\ LenOnWire(ELEM) = 12

----------------------------------------------------------------------------
(* The xid: the program makes a message or a bare object, binds the list of *)
(* a message, and writes and reads the xid of the objects it holds.          *)

\* xid values of four different bytes, of all bytes 0 and of the largest value
\* the checker's integers hold (7F FF FF FF)
Xids == {0, 1, 16909060, 2147483647}

\* of_object_new(bytes) with bytes > 0: an object with an empty buffer
ObjNewBytes ==
    /\ ok /\ Unmade(MSG)
    /\ \E bytes \in {4, 16}, mem \in BOOLEAN :
          Step(of_object_new(Cur, MSG, bytes, mem), "of_object_new", MSG, NULL, bytes,
               hist)

\* op.p the object, op.x the value given
XidSetAny ==
    /\ ok
    /\ \E o \in {MSG, LIST}, v \in Xids :
          /\ o = MSG => obj[MSG].alive
          /\ Step(of_object_xid_set(Cur, o, v), "of_object_xid_set", o, NULL, v, hist)

\* op.p the object, op.x the value of *xid after the call (prior before it)
XidGet ==
    /\ ok
    /\ \E o \in {MSG, LIST}, prior \in {0, 1} :
          /\ o = MSG => obj[MSG].alive
          /\ Step(Return(Cur, of_object_xid_get_status(Cur, o)), "of_object_xid_get",
                  o, NULL, of_object_xid_get_value(Cur, o, prior), hist)

NextXid ==
    \/ MsgNew
    \/ ObjNew
    \/ ObjNewBytes
    \/ LifeListBind
    \/ XidSetAny
    \/ XidGet

SpecXid == Init /\ [][NextXid]_vars

\* the step reads the xid of the object whose xid the step before has set
GetAfterSet ==
    /\ ok /\ op.name = "of_object_xid_set"
    /\ op'.name = "of_object_xid_get" /\ op'.p = op.p

\* the xid of the object lies within the current content of its buffer
XidInContent(o) ==
    /\ obj[o].wbuf # NULL
    /\ obj[o].obj_offset + OF_MESSAGE_XID_OFFSET + 4 <= wbuf[obj[o].wbuf].current_bytes

----------------------------------------------------------------------------
(* Ownership: the program has made a message by allocation or by parsing    *)
(* the caller's bytes; it binds the list, appends elements of its own,      *)
(* registers delete callbacks, steals buffers and deletes objects.  It does *)
(* not use an object whose buffer has been freed under it.                  *)

InitOwn ==
    \E nd \in BOOLEAN, parsed \in BOOLEAN, id \in MsgIds :
       LET S0 == St([o \in Objs |-> ZeroObj], [b \in Bufs |-> ZeroBuf], nd)
           S  == IF parsed
                 THEN of_object_new_from_message(
                          S0, MSG, <<1, WireTypeOf(id), 0, 16, 0, 0, 0, 0,
                                     0, 1, 0, 8, 0, 0, 0, 0>>, 16, TRUE, TRUE)
                 ELSE of_msg_new(S0, MSG, id, 16, TRUE)
       IN /\ ndebug = nd
          /\ obj = S.obj
          /\ wbuf = S.wbuf
          /\ ok = TRUE
          /\ ret = S.ret
          /\ op = [name |-> "init", p |-> NULL, c |-> NULL, x |-> 0, base |-> "",
                   log |-> <<>>]
          /\ hist = Hist0

Usable(o) == IF obj[o].wbuf = NULL THEN TRUE ELSE wbuf[obj[o].wbuf].state = "live"

\* obj->track_info.delete_cb = cb
SetDeleteCb ==
    /\ ok
    /\ \E o \in {MSG, ITEM} :
          /\ obj[o].alive /\ ~obj[o].delete_cb
          /\ Step([Cur EXCEPT !.obj[o].delete_cb = TRUE], "set_delete_cb", o, NULL, 0,
                  hist)

\* of_elem_a_new(version): an element with a buffer of its own
OwnItemNew ==
    /\ ok /\ ~obj[ITEM].alive
    /\ Step(of_msg_new(Cur, ITEM, "OF_ELEM_A",
                       of_object_fixed_len(OF_VERSION_1_0, "OF_ELEM_A"), TRUE),
            "of_elem_new", ITEM, NULL, 0, hist)

\* of_object_delete of nothing, or of an object the library allocated
Delete ==
    /\ ok
    /\ \E o \in {NULL, MSG, ITEM} :
          /\ o # NULL => obj[o].alive
          /\ Step(of_object_delete(Cur, o), "of_object_delete", o, NULL, 0, hist)

Steal ==
    /\ ok
    /\ \E o \in {NULL, MSG} :
          /\ o # NULL => (obj[o].alive /\ Usable(o))
          /\ Step(of_object_wire_buffer_steal(Cur, o), "of_object_wire_buffer_steal",
                  o, NULL, 0, hist)

\* an element of the program's own, with or without a buffer of its own,
\* appended to the list, or to the message itself once it has no buffer
OwnAppendBind ==
    /\ ok /\ obj[ITEM].alive /\ Usable(ITEM)
    /\ \E p \in {MSG, LIST} :
          /\ p = MSG => (obj[MSG].alive /\ obj[MSG].wbuf = NULL)
          /\ p = LIST => (obj[LIST].wbuf # NULL /\ Usable(LIST))
          /\ Step(of_list_append_bind(Cur, p, ITEM), "of_list_append_bind", p, ITEM, 0,
                  hist)

\* the xid of a message that has no buffer
OwnXidSet ==
    /\ ok /\ obj[MSG].alive /\ obj[MSG].wbuf = NULL
    /\ \E v \in XidVals :
          Step(of_object_xid_set(Cur, MSG, v), "of_object_xid_set", MSG, NULL, v, hist)

OwnXidGet ==
    /\ ok /\ obj[MSG].alive /\ obj[MSG].wbuf = NULL
    /\ Step(Return(Cur, of_object_xid_get_status(Cur, MSG)), "of_object_xid_get",
            MSG, NULL, of_object_xid_get_value(Cur, MSG, 0), hist)

\* of_object_buffer_bind of the caller's bytes to a message, with a buffer
\* already or with none
Rebind ==
    /\ ok /\ obj[MSG].alive /\ Usable(MSG)
    /\ \E made \in BOOLEAN :
          Step(of_object_buffer_bind(Cur, MSG, FALSE, <<1, 10, 0, 8, 0, 0, 0, 0>>, 8,
                                     "msg_free", made),
               "of_object_buffer_bind", MSG, 1, 8, hist)

\* of_list_first with an element of the program's own as the child
OwnFirst ==
    /\ ok /\ obj[ITEM].alive /\ Usable(ITEM)
    /\ obj[LIST].wbuf # NULL /\ Usable(LIST)
    /\ Step(of_list_first(Cur, LIST, ITEM), "of_list_first", LIST, ITEM, 0, hist)

NextOwn ==
    \/ LifeListBind
    \/ OwnItemNew
    \/ OwnFirst
    \/ OwnAppendBind
    \/ SetDeleteCb
    \/ Delete
    \/ Steal
    \/ OwnXidSet
    \/ OwnXidGet
    \/ Rebind

SpecOwn == InitOwn /\ [][NextOwn]_vars

----------------------------------------------------------------------------
(* Properties of ownership (SpecOwn) *)

\* the places of an event in the log of a call
EventsAt(log, name, arg) == {i \in 1..Len(log) : log[i] = <<name, arg>>}
\* the places where the call gave back bytes or freed a wire buffer
FreesAt(log) ==
    {i \in 1..Len(log) : log[i][1] \in {"release_cb", "free_bytes", "free_wbuf"}}
\* the call gave back the bytes of buffer b
GaveBack(log, b) ==
    EventsAt(log, "release_cb", b) \cup EventsAt(log, "free_bytes", b) # {}

Stolen(b) == wbuf[b].bytes = "stolen"

\* C12: of_object_wire_buffer_steal leaves the object with no buffer and the
\* bytes stolen, not given back; bytes once stolen stay stolen and no later
\* call, of_object_delete of the object included, frees them or invokes their
\* free function; of_object_xid_set, of_object_xid_get and
\* of_list_append_bind on the object with no buffer return OF_ERROR_PARAM.
C12_StealDisowns ==
    [][ /\ (ok /\ ok' /\ op'.name = "of_object_wire_buffer_steal") =>
              /\ obj'[op'.p].wbuf = NULL
              /\ wbuf'[obj[op'.p].wbuf].bytes = "stolen"
              /\ ~GaveBack(op'.log, obj[op'.p].wbuf)
        /\ \A b \in Bufs : Stolen(b) => (Stolen(b)' /\ ~GaveBack(op'.log, b))
        /\ (ok /\ op'.p = MSG /\ obj[MSG].wbuf = NULL
              /\ op'.name \in {"of_object_xid_set", "of_object_xid_get",
                                "of_list_append_bind"}) =>
              (ok' /\ ret' = OF_ERROR_PARAM /\ wbuf' = wbuf) ]_vars

\* the message whose bytes were stolen was deleted: the object was freed, the
\* bytes were not
C12_Witness ==
    /\ ok /\ op.name = "of_object_delete" /\ op.p = MSG
    /\ op.log = <<<<"free_obj", MSG>>>>
    /\ \E b \in Bufs : Stolen(b)

\* C13: of_object_delete(NULL) does nothing; of an object it invokes the
\* delete callback once if one is registered and never otherwise, before any
\* buffer is freed; it frees the object's buffer when the object owns it
\* and frees no buffer when it does not, so a child's parent keeps its buffer.
C13_Delete ==
    [][ (ok /\ op'.name = "of_object_delete") =>
          IF op'.p = NULL
          THEN ok' /\ obj' = obj /\ wbuf' = wbuf /\ op'.log = <<>>
          ELSE LET o   == op'.p
                   cbs == EventsAt(op'.log, "delete_cb", o)
               IN /\ ok'
                  /\ Cardinality(cbs) = IF obj[o].delete_cb THEN 1 ELSE 0
                  /\ \A i \in cbs, j \in FreesAt(op'.log) : i < j
                  /\ (obj[o].owned /\ obj[o].wbuf # NULL) =>
                        /\ EventsAt(op'.log, "free_wbuf", obj[o].wbuf) # {}
                        /\ wbuf'[obj[o].wbuf].state = "freed"
                  /\ ~obj[o].owned => (FreesAt(op'.log) = {} /\ wbuf' = wbuf)
                  /\ \A b \in Bufs \ {obj[o].wbuf} : wbuf'[b] = wbuf[b] ]_vars

\* a parsed message with a delete callback was deleted: the callback, then the
\* free function of the bytes, then the wire buffer, then the object
C13_Witness ==
    /\ ok /\ op.name = "of_object_delete" /\ op.p = MSG
    /\ Len(op.log) = 4
    /\ op.log[1] = <<"delete_cb", MSG>> /\ op.log[2][1] = "release_cb"
    /\ op.log[3][1] = "free_wbuf" /\ op.log[4] = <<"free_obj", MSG>>

\* an element that shares the list's buffer was deleted: the buffer is live
C13_WitnessChild ==
    /\ ok /\ op.name = "of_object_delete" /\ op.p = ITEM
    /\ op.log = <<<<"free_obj", ITEM>>>>
    /\ obj[MSG].wbuf # NULL /\ wbuf[obj[MSG].wbuf].state = "live"
    /\ obj[MSG].length = 16

\* the objects that refer to buffer b with the ownership flag set
Owners(b) == {o \in Objs : obj[o].wbuf = b /\ obj[o].owned}

\* C15: every wire buffer that is allocated or bound, and was neither freed
\* nor stolen, is the buffer of exactly one object whose owned flag is set.
C15_OneOwner ==
    \A b \in Bufs : wbuf[b].state = "live" => Cardinality(Owners(b)) = 1

\* no buffer ever has two owners
C15_AtMostOneOwner ==
    \A b \in Bufs : wbuf[b].state = "live" => Cardinality(Owners(b)) <= 1

----------------------------------------------------------------------------
(* The frame of a read navigation (SpecIter) *)

\* C16: of_list_first and of_list_next (object_child_attach with bytes = 0)
\* change nothing but the child's parent, wbuf, obj_offset and owned: the
\* wire buffers (bytes, current_bytes, alloc_bytes), every other object, so
\* the lengths of the parent and its ancestors, and the child's length and
\* other fields stay as they were.
C16_ReadNavigationFrame ==
    [][ (ok /\ op'.name \in {"of_list_first", "of_list_next"}) =>
          LET child == op'.c
          IN /\ wbuf' = wbuf
             /\ \A o \in Objs \ {child} : obj'[o] = obj[o]
             /\ obj'[child] = [obj[child] EXCEPT !.parent = obj'[child].parent,
                                                 !.wbuf = obj'[child].wbuf,
                                                 !.obj_offset = obj'[child].obj_offset,
                                                 !.owned = obj'[child].owned]
             /\ obj'[child].length = obj[child].length ]_vars

\* of_list_next moved the child to the second element of the list
C16_Witness ==
    /\ ok /\ op.name = "of_list_next" /\ ret = OF_ERROR_NONE
    /\ obj[ELEM].parent = LIST /\ obj[ELEM].wbuf = obj[LIST].wbuf
    /\ obj[ELEM].obj_offset > obj[LIST].obj_offset

----------------------------------------------------------------------------
(* Depth of the parent chain: a message with its list, under which elements *)
(* are nested by of_list_append_bind, the buffer is grown and lengths are   *)
(* updated with of_object_parent_length_update.                             *)

\* the lengths an update may reach
MaxLength == 40
Deltas == {4}

InitDepth ==
    \E nd \in BOOLEAN :
       LET S0 == St([o \in Objs |-> ZeroObj], [b \in Bufs |-> ZeroBuf], nd)
           S  == of_msg_list_bind(of_msg_new(S0, MSG, "OF_MSG", 64, TRUE), MSG, LIST)
       IN /\ ndebug = nd
          /\ obj = S.obj
          /\ wbuf = S.wbuf
          /\ ok = TRUE
          /\ ret = OF_ERROR_NONE
          /\ op = [name |-> "init", p |-> NULL, c |-> NULL, x |-> 0, base |-> "",
                   log |-> <<>>]
          /\ hist = Hist0

\* of_<elem>_init(child, version, -1, 1) of an object not yet attached
DepthChildInit ==
    /\ ok
    /\ \E c \in {ELEM, ITEM, DUPO} :
          /\ obj[c].wbuf = NULL /\ obj[c].length = 0
          /\ Step(of_object_init(Cur, c, "OF_ELEM_A", OF_VERSION_1_0, -1, TRUE),
                  "of_elem_init", c, NULL, 0, hist)

\* of_list_append_bind of an initialized object under the object before it
DepthAppendBind ==
    /\ ok
    /\ \E pc \in {<<LIST, ELEM>>, <<ELEM, ITEM>>, <<ITEM, DUPO>>} :
          /\ obj[pc[1]].wbuf # NULL
          /\ obj[pc[2]].wbuf = NULL /\ obj[pc[2]].length > 0
          /\ obj[MSG].length + obj[pc[2]].length <= MaxLength
          /\ Step(of_list_append_bind(Cur, pc[1], pc[2]), "of_list_append_bind",
                  pc[1], pc[2], 0, hist)

\* of_wire_buffer_grow of the message's buffer by delta bytes
DepthGrow ==
    /\ ok
    /\ \E delta \in Deltas :
          /\ wbuf[obj[MSG].wbuf].current_bytes + delta <= MaxLength
          /\ Step(of_wire_buffer_grow(Cur, obj[MSG].wbuf,
                                      wbuf[obj[MSG].wbuf].current_bytes + delta),
                  "of_wire_buffer_grow", MSG, NULL, delta, hist)

\* op.p the object, op.x the delta
LengthUpdate ==
    /\ ok
    /\ \E o \in Objs, delta \in Deltas :
          /\ obj[o].wbuf # NULL
          /\ obj[MSG].length + delta <= MaxLength
          /\ Step(of_object_parent_length_update(Cur, o, delta),
                  "of_object_parent_length_update", o, NULL, delta, hist)

NextDepth ==
    \/ DepthChildInit
    \/ DepthAppendBind
    \/ DepthGrow
    \/ LengthUpdate

SpecDepth == InitDepth /\ [][NextDepth]_vars

\* the objects from o up to its root, o first
RECURSIVE ChainFrom(_, _)
ChainFrom(o, n) ==
    IF o = NULL \/ n = 0 THEN <<>> ELSE <<o>> \o ChainFrom(obj[o].parent, n - 1)
Chain(o) == ChainFrom(o, Cardinality(Objs))
\* the first k objects of the chain of o
ChainPrefix(o, k) == {Chain(o)[i] : i \in 1..(IF k < Len(Chain(o)) THEN k ELSE Len(Chain(o)))}

\* the step added delta to the length of the objects of set and of no other
LengthsUpdated(set, delta) ==
    \A a \in Objs : obj'[a].length = obj[a].length + (IF a \in set THEN delta ELSE 0)

\* with delta more the objects of set still end within the content of their
\* buffer, a root at its end: the length assertions of the update hold
LengthsFit(set, delta) ==
    \A a \in set :
        LET end == obj[a].length + delta + obj[a].obj_offset
        IN /\ end <= wbuf[obj[a].wbuf].current_bytes
           /\ obj[a].parent = NULL => end = wbuf[obj[a].wbuf].current_bytes

\* C17 as stated: with at most _MAX_PARENT_ITERATIONS objects in the chain
\* the update adds delta to each and completes without a failed assertion;
\* with more it ends in the failed depth assertion, the first
\* _MAX_PARENT_ITERATIONS objects updated.
C17_DepthAssertAlways ==
    [][ (ok /\ op'.name = "of_object_parent_length_update") =>
          LET o == op'.p
          IN IF Len(Chain(o)) <= _MAX_PARENT_ITERATIONS
             THEN ok' /\ LengthsUpdated(ChainPrefix(o, Len(Chain(o))), op'.x)
             ELSE /\ ~ok' /\ ret' = ASSERT_FAILED
                  /\ LengthsUpdated(ChainPrefix(o, _MAX_PARENT_ITERATIONS), op'.x) ]_vars

\* C17: the update adds delta to the object and each ancestor and completes
\* when assertions are compiled out, whatever the chain, and when the chain
\* has at most _MAX_PARENT_ITERATIONS objects whose new lengths fit the
\* buffer; with assertions and a longer chain it ends in the failed depth
\* assertion after updating the first _MAX_PARENT_ITERATIONS objects, if
\* their new lengths fit.
C17_DepthAssert ==
    [][ (ok /\ op'.name = "of_object_parent_length_update") =>
          LET o     == op'.p
              all   == ChainPrefix(o, Len(Chain(o)))
              first == ChainPrefix(o, _MAX_PARENT_ITERATIONS)
          IN /\ (ndebug \/ (Len(Chain(o)) <= _MAX_PARENT_ITERATIONS
                               /\ LengthsFit(all, op'.x))) =>
                   (ok' /\ LengthsUpdated(all, op'.x))
             /\ (~ndebug /\ Len(Chain(o)) > _MAX_PARENT_ITERATIONS
                    /\ LengthsFit(first, op'.x)) =>
                   (~ok' /\ ret' = ASSERT_FAILED /\ LengthsUpdated(first, op'.x)) ]_vars

\* the update from the fifth object of a chain ended in the depth
\* assertion: the list's length was updated, the message's was not
C17_Witness ==
    /\ ~ok /\ ret = ASSERT_FAILED /\ ~ndebug
    /\ op.name = "of_object_parent_length_update" /\ op.p = DUPO
    /\ Len(Chain(DUPO)) = 5
    /\ obj[LIST].obj_offset + obj[LIST].length = wbuf[obj[MSG].wbuf].current_bytes
    /\ obj[MSG].length < wbuf[obj[MSG].wbuf].current_bytes

\* assertions compiled out: the update from the fifth object of a chain
\* returned, the message's length updated too
C17_WitnessNdebug ==
    /\ ok /\ ndebug
    /\ op.name = "of_object_parent_length_update" /\ op.p = DUPO
    /\ Len(Chain(DUPO)) = 5
    /\ obj[MSG].length = wbuf[obj[MSG].wbuf].current_bytes

\* the update from the fourth object of a chain completed
C17_WitnessFour ==
    /\ ok /\ op.name = "of_object_parent_length_update" /\ op.p = ITEM
    /\ Len(Chain(ITEM)) = 4
    /\ obj[MSG].length = wbuf[obj[MSG].wbuf].current_bytes

----------------------------------------------------------------------------
(* The effect of of_list_append (Spec) *)

\* the offsets in their buffer of the length fields that the objects of
\* set write with wire_length_set
LengthFields(set) ==
    UNION {{obj[a].obj_offset + 2, obj[a].obj_offset + 3} :
              a \in {x \in set : obj[x].wire_length_set # "NULL"}}

\* the step copied the n bytes of the item to the end of the list
ItemCopied(list, item) ==
    \A i \in 0..(obj[item].length - 1) :
        GetU8(wbuf'[obj[list].wbuf].buf, obj[list].obj_offset + obj[list].length + i)
          = GetU8(wbuf[obj[item].wbuf].buf, obj[item].obj_offset + i)

\* the step left the bytes below the end of the list as they were, but for
\* those at the offsets of except
BelowUnchanged(list, except) ==
    \A k \in (0..(obj[list].obj_offset + obj[list].length - 1)) \ except :
        GetU8(wbuf'[obj[list].wbuf].buf, k) = GetU8(wbuf[obj[list].wbuf].buf, k)

ItemUnchanged(item) ==
    obj'[item] = obj[item] /\ wbuf'[obj[item].wbuf] = wbuf[obj[item].wbuf]

AppendStep == ok /\ op'.name = "of_list_append"
AppendDone == AppendStep /\ ok' /\ ret' = OF_ERROR_NONE
AppendNoRoom ==
    AppendStep /\ ~of_object_can_grow(Cur, op'.p, obj[op'.p].length + obj[op'.c].length)

\* C18 as stated: a successful of_list_append copies the item to the end of
\* the list, leaves every byte below that end and the item unchanged, and
\* adds the item's length to the list and its ancestors; when the capacity
\* check fails it returns OF_ERROR_RESOURCE and changes nothing.
C18_AppendAllBelowUnchanged ==
    [][ /\ AppendDone =>
              /\ ItemCopied(op'.p, op'.c)
              /\ BelowUnchanged(op'.p, {})
              /\ ItemUnchanged(op'.c)
              /\ LengthsUpdated(ChainPrefix(op'.p, Len(Chain(op'.p))), obj[op'.c].length)
        /\ AppendNoRoom => (ret' = OF_ERROR_RESOURCE /\ obj' = obj /\ wbuf' = wbuf) ]_vars

\* C18: as stated, but of the bytes below the end of the list the length
\* fields of the list and its ancestors are rewritten with the new lengths.
C18_Append ==
    [][ /\ AppendDone =>
              /\ ItemCopied(op'.p, op'.c)
              /\ BelowUnchanged(op'.p, LengthFields(ChainPrefix(op'.p, Len(Chain(op'.p)))))
              /\ \A a \in ChainPrefix(op'.p, Len(Chain(op'.p))) :
                    obj[a].wire_length_set # "NULL" =>
                       GetU16(wbuf'[obj[a].wbuf].buf, obj[a].obj_offset + 2)
                         = obj'[a].length
              /\ ItemUnchanged(op'.c)
              /\ LengthsUpdated(ChainPrefix(op'.p, Len(Chain(op'.p))), obj[op'.c].length)
        /\ AppendNoRoom => (ret' = OF_ERROR_RESOURCE /\ obj' = obj /\ wbuf' = wbuf)
        /\ (AppendStep /\ ok' /\ ret' = OF_ERROR_RESOURCE) =>
              (obj' = obj /\ wbuf' = wbuf) ]_vars

\* a second item was appended to the list of a message
C18_Witness ==
    /\ ok /\ op.name = "of_list_append" /\ ret = OF_ERROR_NONE
    /\ Len(hist.elems) = 2
    /\ obj[LIST].length = hist.elems[1] + obj[ITEM].length
    /\ obj[MSG].length = wbuf[obj[MSG].wbuf].current_bytes

\* the list's buffer had no room for the item
C18_WitnessNoRoom ==
    /\ ok /\ op.name = "of_list_append" /\ ret = OF_ERROR_RESOURCE

----------------------------------------------------------------------------
(* Parsing of caller bytes: of_object_new_from_message and
   of_object_new_from_message_preallocated *)

NextParse ==
    \/ Parse
    \/ ParsePreallocated
    \/ LifeListBind
    \/ XidSetAny
    \/ XidGet
    \/ Delete

SpecParse == Init /\ [][NextParse]_vars

\* the places of the events of a name in the log of a call
EventsNamed(log, name) == {i \in 1..Len(log) : log[i][1] = name}

\* the message is one the parse must refuse
Refused(msg, len) ==
    \/ ~OF_VERSION_OKAY(of_message_version_get(msg))
    \/ ~of_validate_message(msg, len)

\* the call that gave R from S returned NULL, bound no bytes, not the
\* caller's either, and invoked no free function
NothingBound(S, R) ==
    /\ R.ok /\ R.ret = RET_NULL
    /\ EventsNamed(R.log, "bind") = {}
    /\ EventsNamed(R.log, "release_cb") = {}
    /\ R.obj[MSG].wbuf = NULL
    /\ \A b \in Bufs : R.wbuf[b].bytes = S.wbuf[b].bytes

\* every bind of the call comes after the validator returned 0
BindAfterValidate(log) ==
    \A i \in EventsNamed(log, "bind") :
        \E j \in EventsAt(log, "validate", 0) : j < i

\* C14: of_object_new_from_message and its preallocated form return NULL on
\* a message of an unknown version or one the validator refuses, having
\* bound no bytes and invoked no free function; on every path a bind of the
\* caller's bytes comes after the validator was called and returned 0.
C14_ValidateBeforeBind ==
    (ok /\ Unmade(MSG)) =>
        \A msg \in ExtMsgs :
            /\ \A mem \in BOOLEAN, made \in BOOLEAN :
                  LET R == of_object_new_from_message(Cur, MSG, msg, Len(msg), mem, made)
                  IN /\ Refused(msg, Len(msg)) => NothingBound(Cur, R)
                     /\ BindAfterValidate(R.log)
            /\ FreshBuf(Cur) # NULL =>
                  LET R == of_object_new_from_message_preallocated(
                               Cur, MSG, FreshBuf(Cur), msg, Len(msg))
                  IN /\ Refused(msg, Len(msg)) => NothingBound(Cur, R)
                     /\ BindAfterValidate(R.log)

\* a message the validator refused: NULL returned, nothing bound
C14_Witness ==
    /\ ok /\ op.name = "of_object_new_from_message" /\ ret = RET_NULL
    /\ op.log = <<<<"validate", 1>>>>
    /\ obj[MSG].wbuf = NULL

\* a sound message: the validator returned 0, then the bytes were bound
C14_WitnessBound ==
    /\ ok /\ op.name = "of_object_new_from_message" /\ ret = RET_OBJ
    /\ Len(op.log) = 2 /\ op.log[1] = <<"validate", 0>> /\ op.log[2][1] = "bind"

\* the call that gave R made in slot o a root of the version and type of
\* the header, at offset 0 and of length len, whose buffer is the caller's
\* bytes msg, bound and not copied
ParsedRoot(R, o, msg, len) ==
    /\ R.ok /\ R.ret = RET_OBJ
    /\ R.obj[o].parent = NULL /\ R.obj[o].wbuf # NULL
    /\ R.obj[o].version = of_message_version_get(msg)
    /\ R.obj[o].object_id = MsgIdOfWire(GetU8(msg, 1))
    /\ R.obj[o].obj_offset = 0
    /\ R.obj[o].length = len
    /\ R.wbuf[R.obj[o].wbuf].buf = msg
    /\ R.wbuf[R.obj[o].wbuf].bytes = "bound"
    /\ R.wbuf[R.obj[o].wbuf].current_bytes = len

\* C19: on the same bytes, and with memory for the object and the wire
\* buffer, of_object_new_from_message returns NULL exactly when
\* of_object_new_from_message_preallocated does; when they return an object
\* it is in both cases a root of the same version and type, at offset 0, of
\* length len, on the caller's bytes.
C19_ParseSame ==
    (ok /\ Unmade(MSG) /\ FreshBuf(Cur) # NULL) =>
        \A msg \in ExtMsgs :
            LET Ra == of_object_new_from_message(Cur, MSG, msg, Len(msg), TRUE, TRUE)
                Rp == of_object_new_from_message_preallocated(
                          Cur, MSG, FreshBuf(Cur), msg, Len(msg))
            IN /\ Ra.ok /\ Rp.ok
               /\ (Ra.ret = RET_NULL) <=> (Rp.ret = RET_NULL)
               /\ Ra.ret # RET_NULL =>
                     /\ ParsedRoot(Ra, MSG, msg, Len(msg))
                     /\ ParsedRoot(Rp, MSG, msg, Len(msg))
                     /\ Ra.obj[MSG].object_id = Rp.obj[MSG].object_id
                     /\ Ra.obj[MSG].version = Rp.obj[MSG].version

\* the preallocated parse of the 16-byte message gave a root on its bytes
C19_Witness ==
    /\ ok /\ op.name = "of_object_new_from_message_preallocated" /\ ret = RET_OBJ
    /\ obj[MSG].length = 16 /\ obj[MSG].obj_offset = 0
    /\ obj[MSG].object_id = "OF_MSG" /\ obj[MSG].version = OF_VERSION_1_0
    /\ wbuf[obj[MSG].wbuf].bytes = "bound"
    /\ Len(wbuf[obj[MSG].wbuf].buf) = 16

----------------------------------------------------------------------------
(* A walk over a list of the caller's bytes: of_list_first, then            *)
(* of_object_wire_init and of_list_next in any order, the element lengths   *)
(* being what the bytes hold.  hist.visited holds the offsets the child     *)
(* took since of_list_first, while its length was above 0 at each call.     *)

\* of_object_wire_init(child, OF_ELEM, 0) between two steps of the walk
WalkInit ==
    /\ ok /\ obj[ELEM].wbuf # NULL
    /\ Step(of_object_wire_init(Cur, ELEM, "OF_ELEM", 0), "of_object_wire_init",
            ELEM, NULL, 0, hist)

WalkNext ==
    /\ ok
    /\ LET S == of_list_next(Cur, LIST, ELEM)
       IN Step(S, "of_list_next", LIST, ELEM, 0,
               IF obj[ELEM].length <= 0 \/ hist.visited = <<>> \/ ~S.ok
               THEN [hist EXCEPT !.iter = "none", !.visited = <<>>]
               ELSE IF S.ret = OF_ERROR_NONE
               THEN [hist EXCEPT !.visited = Append(@, RelOffset(S))]
               ELSE hist)

NextWalk ==
    \/ ElemBaseInit
    \/ First
    \/ WalkInit
    \/ WalkNext

SpecWalk == InitWire /\ [][NextWalk]_vars

NextStep == ok /\ op'.name = "of_list_next"
ListEnd == obj[LIST].obj_offset + obj[LIST].length

\* each successful of_list_next on a child of length above 0 moves the child
\* up and leaves it below the end of the list; the calls since of_list_first
\* that returned OF_ERROR_NONE are fewer than the list has bytes
Progress ==
    (NextStep /\ obj[LIST].length > 0 /\ obj[ELEM].length > 0
        /\ ok' /\ ret' = OF_ERROR_NONE) =>
       /\ obj'[ELEM].obj_offset > obj[ELEM].obj_offset
       /\ obj'[ELEM].obj_offset < ListEnd
       /\ Len(hist'.visited) > 0 => Len(hist'.visited) - 1 < obj[LIST].length

\* C20 as stated: progress of each successful of_list_next, so that
\* OF_ERROR_RANGE comes after at most parent.length calls; of_list_next on
\* a child of length 0 ends in a failed assertion.
C20_NextTerminatesOrAsserts ==
    [][ /\ Progress
        /\ (NextStep /\ obj[ELEM].length = 0) => (~ok' /\ ret' = ASSERT_FAILED) ]_vars

\* C20: progress as stated; of_list_next on a child of length 0 ends in a
\* failed assertion when assertions are compiled in; when they are not it
\* returns OF_ERROR_RANGE if the child is at or beyond the end of the list
\* and otherwise OF_ERROR_NONE with the child's offset where it was within
\* the list.
C20_NextTerminates ==
    [][ /\ Progress
        /\ (NextStep /\ obj[ELEM].length = 0 /\ ~ndebug) =>
              (~ok' /\ ret' = ASSERT_FAILED)
        /\ (NextStep /\ obj[ELEM].length = 0 /\ ndebug) =>
              /\ ok'
              /\ IF obj[ELEM].obj_offset >= ListEnd
                 THEN ret' = OF_ERROR_RANGE /\ obj' = obj
                 ELSE /\ ret' = OF_ERROR_NONE
                      /\ obj'[ELEM].obj_offset = obj[ELEM].obj_offset ]_vars

\* a walk over elements of 4 bytes came to the third position, offset 8 of
\* the list of 12 bytes, and of_list_next then returned OF_ERROR_RANGE
C20_Witness ==
    /\ ok /\ op.name = "of_list_next" /\ ret = OF_ERROR_RANGE
    /\ hist.visited = <<0, 4, 8>>
    /\ obj[ELEM].length = 4 /\ obj[LIST].length = 12

\* assertions compiled out: of_list_next on an element whose length field
\* holds 0 returned OF_ERROR_NONE and the child stayed at the start of
\* the list
C20_WitnessStuck ==
    /\ ok /\ ndebug /\ op.name = "of_list_next" /\ ret = OF_ERROR_NONE
    /\ obj[ELEM].length = 0 /\ obj[ELEM].obj_offset = obj[LIST].obj_offset
    /\ obj[ELEM].parent = LIST

====
